---- MODULE Spec2Model ----
(***************************************************************************)
(* Model of package queue (claudebot-mcp): a bounded ring-buffer FIFO of   *)
(* QueuedMessage values guarded by one mutex, with a close-and-replace     *)
(* notify channel that wakes goroutines blocked in Poll.                    *)
(*                                                                         *)
(* A QueuedMessage is modelled by the three fields the queue reads or that *)
(* identify it: ID, ChannelID and ChannelName.  The other fields are       *)
(* copied in and out untouched and are left out.  The zero value           *)
(* QueuedMessage{} is ZeroMsg.  Channels (chan struct{}) are numbered in   *)
(* the order make() created them; `closed` is the set of closed ones.      *)
(***************************************************************************)
EXTENDS Integers, Sequences, FiniteSets, TLC

\* ------------------------------------------------------------------ bounds
\* Capacity handed to WithMaxSize by the concurrent specification.
Cap == 2
MaxWakes == 1
\* Largest capacity handed to WithMaxSize by the sequential specification.
MaxCap == 3
\* Enqueue calls per run of the sequential specification.
MaxSeqEnq == 4

\* ------------------------------------------------------------------ values
DefaultMaxSize == 1000

Producers == {"p1", "p2"}
Consumers == {"c1", "c2"}
Procs == Producers \cup Consumers
NoOne == "none"

\* The guild channels messages arrive on: (ChannelID, ChannelName).
ChanA == [id |-> "1", name |-> "a"]
ChanB == [id |-> "2", name |-> "b"]
Channels == {ChanA, ChanB}

ZeroMsg == [ID |-> 0, ChannelID |-> "", ChannelName |-> ""]
Msg(id, ch) == [ID |-> id, ChannelID |-> ch.id, ChannelName |-> ch.name]

\* Inputs of the concurrent specification.
Filters == {"", "a"}
Limits == {0, 1}

\* Inputs of the sequential specifications.
SeqFilters == {"", "a", "2", "x"}
SeqLimits == (-1)..MaxCap

\* A nil *safety.Filter, and the Session of a run that has none.
NilFilter == [nil |-> TRUE, allow |-> {}, deny |-> {}]
NoSession == [guildID |-> "", filter |-> NilFilter, byID |-> {}]

\* ------------------------------------------------------------------ state
VARIABLES
    q,          \* the Queue: buf, head, count, maxSize, notify
    made,       \* number of channels make(chan struct{}) has created
    closed,     \* the channels that have been closed
    mu,         \* holder of q.mu, or NoOne
    pc,         \* each goroutine's position
    msg,        \* Enqueue's argument, per producer
    oldNotify,  \* Enqueue's local oldNotify, per producer
    filter,     \* Poll's channelFilter, per consumer
    limit,      \* Poll's limit, per consumer
    notifyCh,   \* Poll's local notifyCh, per consumer
    ctxDone,    \* whether ctx.Done() of the consumer's call is closed
    ctxAtEntry, \* history: whether ctx was cancelled already when the call was made
    timerFired, \* whether timer.C of the consumer's call has a value
    ret,        \* the last value returned to each consumer, and why
    enqCalls,   \* Enqueue calls made so far
    delivered,  \* history: ID -> number of times a Poll returned it
    drainGen,   \* history: per consumer, q.notify as installed during its last drain
    enqSeen,    \* history: per consumer, the value of `made` during its last drain
    wakes,      \* history: per consumer, wake-ups its current Poll call has taken
    chosen,     \* per consumer, the select of its Poll: "none" while the goroutine
                \* runs, "parked" while it is blocked in the select, and the case
                \* ("timer", "done", "notify") that unblocked it until it resumes
    evicted,    \* history: the IDs of the messages Enqueue dropped from a full queue
    enqLog,     \* history: every message passed to Enqueue, in call order
    polls,      \* sequential runs: Poll calls made so far, counted up to 2
    last,       \* sequential runs: the last call and what it returned
    pre,        \* sequential runs: the queue as the last call found it
    got,        \* sequential runs: per channelFilter, what the Poll calls a consumer
                \* made with it returned, one result after the other
    opts,       \* the options New was called with: the arguments of WithMaxSize
    sess,       \* the discord Session feeding the queue: guildID, filter, and the
                \* resolver's cache byID
    safetyFilter    \* main's channelFilter: the safety.Filter built from the
                \* configuration and handed to MessageTools

vars == <<q, made, closed, mu, pc, msg, oldNotify, filter, limit, notifyCh,
          ctxDone, ctxAtEntry, timerFired, ret, enqCalls, delivered, drainGen, enqSeen, wakes,
          chosen,
          evicted, enqLog, polls, last, pre, got, opts, sess, safetyFilter>>

concVars == <<mu, pc, msg, oldNotify, filter, limit, notifyCh, ctxDone, ctxAtEntry,
              timerFired, ret, delivered, drainGen, enqSeen, wakes, chosen>>
seqVars == <<enqLog, polls, last, pre, got, opts, sess, safetyFilter>>

\* ------------------------------------------------------------------ New
\* Mutant: zero is taken for a size (`>=` for `>`).
WithMaxSize_AcceptsZero(n, dflt) == IF n >= 0 THEN n ELSE dflt

\* The Option WithMaxSize(n) applied to a queue whose maxSize is dflt: values
\* of zero or less are ignored.
WithMaxSize(n, dflt) == IF n > 0 THEN n ELSE dflt

\* `for _, opt := range opts { opt(q) }`: maxSize after the options, given as
\* the arguments of WithMaxSize, were applied in order to a maxSize of size.
RECURSIVE ApplyOpts(_, _)
ApplyOpts(os, size) ==
    IF os = <<>> THEN size
    ELSE ApplyOpts(Tail(os), WithMaxSize(Head(os), size))

\* New(opts...): an empty ring of maxSize zero slots, channel 1 as notify.
NewQueue(os) ==
    LET size == ApplyOpts(os, DefaultMaxSize)
    IN  [buf |-> [i \in 0..(size - 1) |-> ZeroMsg],
         head |-> 0, count |-> 0, maxSize |-> size, notify |-> 1]

\* New(WithMaxSize(n))
New(n) == NewQueue(<<n>>)

\* The zero Queue: what a caller holds before New has run.
NilQueue == [buf |-> <<>>, head |-> 0, count |-> 0, maxSize |-> 0, notify |-> 0]

\* ------------------------------------------------------------------ Enqueue
\* Mutant: the eviction test never fires at capacity (`>` for `==`).
IsFull_Greater(count, maxSize) == count > maxSize

\* Mutant: the eviction test fires one message early.
IsFull_OneEarly(count, maxSize) == count >= maxSize - 1

\* `if q.count == q.maxSize`
IsFull(count, maxSize) == count = maxSize

\* Mutant: on overflow count is reduced and head stays, so the newest
\* message is overwritten instead of the oldest.
DropOldest_KeepHead(s) ==
    IF IsFull(s.count, s.maxSize)
    THEN [s EXCEPT !.count = s.count - 1]
    ELSE s

\* Drop the oldest message by advancing head.
DropOldest(s) ==
    IF IsFull(s.count, s.maxSize)
    THEN [s EXCEPT !.head = (s.head + 1) % s.maxSize, !.count = s.count - 1]
    ELSE s

\* Mutant: the slot after the tail.
TailIdx_OffByOne(s) == (s.head + s.count + 1) % s.maxSize

\* The slot the new message is written to.
TailIdx(s) == (s.head + s.count) % s.maxSize

\* Mutant: the new message lands in the slot of the newest one, as when two
\* producers computed the same tail.
EnqueueLocked_SameSlot(s, m, fresh) ==
    LET d == DropOldest(s)
    IN  [d EXCEPT !.buf[(d.head + d.count + d.maxSize - 1) % d.maxSize] = m,
                  !.count = d.count + 1, !.notify = fresh]

\* The ID of the message Enqueue drops from the queue s: the one at head when
\* the queue is full.
Evicted(s) == IF IsFull(s.count, s.maxSize) THEN {s.buf[s.head].ID} ELSE {}

\* Mutant: a new channel is installed only when the queue was empty, as if
\* only the first message of a burst had to wake anybody.
EnqueueLocked_SignalWhenEmpty(s, m, fresh) ==
    LET d == DropOldest(s)
    IN  [d EXCEPT !.buf[TailIdx(d)] = m, !.count = d.count + 1,
                  !.notify = IF s.count = 0 THEN fresh ELSE s.notify]

\* Enqueue's critical section on the queue s, with fresh the channel make() returns.
EnqueueLocked(s, m, fresh) ==
    LET d == DropOldest(s)
    IN  [d EXCEPT !.buf[TailIdx(d)] = m, !.count = d.count + 1, !.notify = fresh]

\* ------------------------------------------------------------------ poll
\* Mutant: only the channel ID is compared.
Matches_IDOnly(m, channelFilter) == m.ChannelID = channelFilter

\* Mutant: `&&` for `||`.
Matches_Both(m, channelFilter) ==
    m.ChannelID = channelFilter /\ m.ChannelName = channelFilter

\* `msg.ChannelID == channelFilter || msg.ChannelName == channelFilter`
Matches(m, channelFilter) ==
    m.ChannelID = channelFilter \/ m.ChannelName = channelFilter

\* Mutant: `<=` for `<`, one message more than the limit is collected.
Collected_OneMore(lim, nOut) == lim <= 0 \/ nOut <= lim

\* `collected := limit <= 0 || len(out) < limit`
Collected(lim, nOut) == lim <= 0 \/ nOut < lim

\* Mutant: the fast path takes everything, whatever the limit.
FastN_IgnoreLimit(count, lim) == count

\* Fast path: `n := q.count; if limit > 0 && n > limit { n = limit }`
FastN(count, lim) == IF lim > 0 /\ count > lim THEN lim ELSE count

\* Mutant: count is reset instead of reduced by n.
FastAdvance_ResetCount(s, n) ==
    [s EXCEPT !.head = (s.head + n) % s.maxSize, !.count = 0]

\* Mutant: count is reduced and head stays where it was.
FastAdvance_HeadStays(s, n) == [s EXCEPT !.count = s.count - n]

\* Fast path: head and count after n messages were taken from the head.
FastAdvance(s, n) ==
    [s EXCEPT !.head = (s.head + n) % s.maxSize, !.count = s.count - n]

\* Mutant: the fast path copies the messages out and leaves them in the ring.
PollFast_Peek(s, lim) ==
    LET n == FastN(s.count, lim)
    IN  [out |-> [i \in 1..n |-> s.buf[(s.head + i - 1) % s.maxSize]], q |-> s]

\* Mutant: the fast path fills out from its end, newest message first.
PollFast_Reversed(s, lim) ==
    LET n    == FastN(s.count, lim)
        idx(i) == (s.head + i) % s.maxSize
        out  == [i \in 1..n |-> s.buf[idx(n - i)]]
        taken == {idx(i) : i \in 0..(n - 1)}
        zeroed == [s EXCEPT !.buf = [j \in DOMAIN s.buf |->
                                        IF j \in taken THEN ZeroMsg ELSE s.buf[j]]]
    IN  [out |-> out, q |-> FastAdvance(zeroed, n)]

\* Fast path of poll: out[i] = buf[(head+i) % maxSize] for i < n, each such
\* slot zeroed, then head and count move past them.
PollFast(s, lim) ==
    LET n    == FastN(s.count, lim)
        idx(i) == (s.head + i) % s.maxSize
        out  == [i \in 1..n |-> s.buf[idx(i - 1)]]
        taken == {idx(i) : i \in 0..(n - 1)}
        zeroed == [s EXCEPT !.buf = [j \in DOMAIN s.buf |->
                                        IF j \in taken THEN ZeroMsg ELSE s.buf[j]]]
    IN  [out |-> out, q |-> FastAdvance(zeroed, n)]

\* Mutant: a kept message is put in front of the kept ones.
RECURSIVE Scan_KeptInFront(_, _, _, _, _)
Scan_KeptInFront(s, channelFilter, lim, i, acc) ==
    IF i >= s.count
    THEN acc
    ELSE LET m == s.buf[(s.head + i) % s.maxSize]
         IN  IF Collected(lim, Len(acc.out)) /\ Matches(m, channelFilter)
             THEN Scan_KeptInFront(s, channelFilter, lim, i + 1,
                                   [acc EXCEPT !.out = Append(@, m)])
             ELSE Scan_KeptInFront(s, channelFilter, lim, i + 1,
                                   [acc EXCEPT !.kept = <<m>> \o @])

\* Filtered path, the scan loop from index i on: acc holds out and kept.
RECURSIVE Scan(_, _, _, _, _)
Scan(s, channelFilter, lim, i, acc) ==
    IF i >= s.count
    THEN acc
    ELSE LET m == s.buf[(s.head + i) % s.maxSize]
         IN  IF Collected(lim, Len(acc.out)) /\ Matches(m, channelFilter)
             THEN Scan(s, channelFilter, lim, i + 1,
                       [acc EXCEPT !.out = Append(@, m)])
             ELSE Scan(s, channelFilter, lim, i + 1,
                       [acc EXCEPT !.kept = Append(@, m)])

\* Mutant: the write-back loop stops one message short.
Compact_OneShort(s, kept) ==
    LET n == IF Len(kept) > 0 THEN Len(kept) - 1 ELSE 0
    IN  [s EXCEPT !.head = 0, !.count = n,
                  !.buf = [j \in DOMAIN s.buf |->
                              IF j < n THEN kept[j + 1] ELSE ZeroMsg]]

\* Mutant: the kept messages are written back from the old head on, and head
\* stays.
Compact_FromHead(s, kept) ==
    [s EXCEPT !.count = Len(kept),
              !.buf = [j \in DOMAIN s.buf |->
                          LET k == (j + s.maxSize - s.head) % s.maxSize
                          IN  IF k < Len(kept) THEN kept[k + 1] ELSE ZeroMsg]]

\* Mutant: the kept messages are copied to the front and the slots behind
\* them keep what they held.
Compact_StaleTail(s, kept) ==
    [s EXCEPT !.head = 0, !.count = Len(kept),
              !.buf = [j \in DOMAIN s.buf |->
                          IF j < Len(kept) THEN kept[j + 1] ELSE s.buf[j]]]

\* Filtered path: rewrite the ring with only the kept messages, from slot 0,
\* and zero the trailing slots.
Compact(s, kept) ==
    [s EXCEPT !.head = 0, !.count = Len(kept),
              !.buf = [j \in DOMAIN s.buf |->
                          IF j < Len(kept) THEN kept[j + 1] ELSE ZeroMsg]]

\* Mutant: kept is made with length q.count instead of capacity q.count, so
\* that the kept messages follow q.count zero messages.
PollFiltered_KeptPrefilled(s, channelFilter, lim) ==
    LET acc == Scan(s, channelFilter, lim, 0, [out |-> <<>>, kept |-> <<>>])
    IN  [out |-> acc.out,
         q |-> Compact(s, [i \in 1..s.count |-> ZeroMsg] \o acc.kept)]

\* Filtered path of poll: the scan loop, then the ring is rewritten.
PollFiltered(s, channelFilter, lim) ==
    LET acc == Scan(s, channelFilter, lim, 0, [out |-> <<>>, kept |-> <<>>])
    IN  [out |-> acc.out, q |-> Compact(s, acc.kept)]

\* poll(channelFilter, limit) with q.mu held: the messages returned and the
\* queue afterwards.
poll(s, channelFilter, lim) ==
    IF s.count = 0
    THEN [out |-> <<>>, q |-> s]
    ELSE IF channelFilter = ""
         THEN PollFast(s, lim)
         ELSE PollFiltered(s, channelFilter, lim)

\* ------------------------------------------------------------------ Init
NoCall == [op |-> "none", filter |-> "", limit |-> 0, out |-> <<>>, n |-> 0]
NoRet == [kind |-> "none", out |-> <<>>, n |-> 0, cause |-> "",
          filter |-> "", limit |-> 0]

\* The channel of the k-th message of the start-up traffic: a, b, a, ...
PrefillChan(k) == IF k % 2 = 1 THEN ChanA ELSE ChanB

\* The queue after k sequential Enqueue calls on New(WithMaxSize(n)).
RECURSIVE Prefilled(_, _)
Prefilled(n, k) ==
    IF k = 0 THEN New(n)
    ELSE EnqueueLocked(Prefilled(n, k - 1), Msg(k, PrefillChan(k)), k + 1)

\* Most Enqueue calls a run can hold: the start-up traffic and one per producer.
MaxID == (Cap + 1) + Cardinality(Producers)

\* The concurrent specification starts after 0..Cap+1 sequential Enqueue
\* calls (Cap+1 of them leave the ring full with head = 1); then every
\* producer calls Enqueue once and every consumer calls Poll or Len once.
Init ==
    /\ \E k \in 0..(Cap + 1) :
          /\ q = Prefilled(Cap, k)
          /\ opts = <<Cap>>
          /\ made = k + 1
          /\ closed = 1..k
          /\ enqCalls = k
          /\ enqLog = [i \in 1..k |-> Msg(i, PrefillChan(i))]
          /\ evicted = {i \in 1..k : i <= k - Cap}
    /\ mu = NoOne
    /\ pc = [p \in Procs |-> "idle"]
    /\ msg = [p \in Producers |-> ZeroMsg]
    /\ oldNotify = [p \in Producers |-> 0]
    /\ filter = [c \in Consumers |-> ""]
    /\ limit = [c \in Consumers |-> 0]
    /\ notifyCh = [c \in Consumers |-> 0]
    /\ ctxDone = [c \in Consumers |-> FALSE]
    /\ ctxAtEntry = [c \in Consumers |-> FALSE]
    /\ timerFired = [c \in Consumers |-> FALSE]
    /\ ret = [c \in Consumers |-> NoRet]
    /\ delivered = [i \in 1..MaxID |-> 0]
    /\ drainGen = [c \in Consumers |-> 0]
    /\ enqSeen = [c \in Consumers |-> 0]
    /\ wakes = [c \in Consumers |-> 0]
    /\ chosen = [c \in Consumers |-> "none"]
    /\ polls = 0
    /\ last = NoCall
    /\ pre = q
    /\ got = [f \in SeqFilters |-> <<>>]
    /\ sess = NoSession
    /\ safetyFilter = NilFilter

producerVars == <<msg, oldNotify, enqCalls>>
consumerVars == <<filter, limit, notifyCh, ctxDone, ctxAtEntry, timerFired, ret,
                  delivered, drainGen, enqSeen, wakes, chosen>>

\* ------------------------------------------------------------------ Enqueue, step by step
\* A producer calls Enqueue(msg), the message carrying a fresh ID, and its
\* first statement q.mu.Lock() succeeds.  (A call that has not got the lock
\* yet has done nothing: the producer is still "idle".)
EnqueueLock(p, ch) ==
    /\ pc[p] = "idle"
    /\ mu = NoOne
    /\ mu' = p
    /\ msg' = [msg EXCEPT ![p] = Msg(enqCalls + 1, ch)]
    /\ enqCalls' = enqCalls + 1
    /\ enqLog' = Append(enqLog, Msg(enqCalls + 1, ch))
    /\ pc' = [pc EXCEPT ![p] = "E_crit"]
    /\ UNCHANGED <<polls, last, pre, got, opts, sess, safetyFilter, evicted, q, made, closed, oldNotify, consumerVars>>

\* Mutant: the producer waits in its critical section for a free slot.
EnqueueCrit_WaitsForSpace(p) ==
    /\ pc[p] = "E_crit"
    /\ q.count < q.maxSize
    /\ q' = EnqueueLocked(q, msg[p], made + 1)
    /\ evicted' = evicted \cup Evicted(q)
    /\ made' = made + 1
    /\ oldNotify' = [oldNotify EXCEPT ![p] = q.notify]
    /\ mu' = NoOne
    /\ pc' = [pc EXCEPT ![p] = "E_close"]
    /\ UNCHANGED <<seqVars, closed, msg, enqCalls, consumerVars>>

\* Mutant: the critical section leaves the installed channel in place, and
\* the call closes it afterwards.
EnqueueCrit_KeepsSignal(p) ==
    /\ pc[p] = "E_crit"
    /\ q' = [EnqueueLocked(q, msg[p], made + 1) EXCEPT !.notify = q.notify]
    /\ evicted' = evicted \cup Evicted(q)
    /\ made' = made + 1
    /\ oldNotify' = [oldNotify EXCEPT ![p] = q.notify]
    /\ mu' = NoOne
    /\ pc' = [pc EXCEPT ![p] = "E_close"]
    /\ UNCHANGED <<seqVars, closed, msg, enqCalls, consumerVars>>

\* The critical section: evict if full, insert, replace notify; q.mu.Unlock().
EnqueueCrit(p) ==
    /\ pc[p] = "E_crit"
    /\ q' = EnqueueLocked(q, msg[p], made + 1)
    /\ evicted' = evicted \cup Evicted(q)
    /\ made' = made + 1
    /\ oldNotify' = [oldNotify EXCEPT ![p] = q.notify]
    /\ mu' = NoOne
    /\ pc' = [pc EXCEPT ![p] = "E_close"]
    /\ UNCHANGED <<seqVars, closed, msg, enqCalls, consumerVars>>

\* Mutant: the broadcast is forgotten.
Close_Forgotten(closedChans, ch) == closedChans

\* close(ch): the closed channels afterwards.
Close(closedChans, ch) == closedChans \cup {ch}

\* Mutant: the call fires the channel that is installed when it gets to the
\* close, so that the signal is there for a Poll that starts to wait later.
EnqueueClose_Installed(p) ==
    /\ pc[p] = "E_close"
    /\ closed' = Close(closed, q.notify)
    /\ pc' = [pc EXCEPT ![p] = "done"]
    /\ msg' = [msg EXCEPT ![p] = ZeroMsg]
    /\ UNCHANGED <<seqVars, evicted, q, made, mu, oldNotify, enqCalls, consumerVars>>

\* close(oldNotify), outside the lock; Enqueue returns.  (oldNotify keeps its
\* value as the record of the channel this call closed.)
EnqueueClose(p) ==
    /\ pc[p] = "E_close"
    /\ closed' = Close(closed, oldNotify[p])
    /\ pc' = [pc EXCEPT ![p] = "done"]
    /\ msg' = [msg EXCEPT ![p] = ZeroMsg]
    /\ UNCHANGED <<seqVars, evicted, q, made, mu, oldNotify, enqCalls, consumerVars>>

\* ------------------------------------------------------------------ Poll, step by step
\* Mutant: the waiter keeps the channel it had instead of capturing q.notify.
CaptureNotify_Stale(installed, old) == old

\* `notifyCh := q.notify` / `notifyCh = q.notify`, under the lock.
CaptureNotify(installed, old) == installed

\* Mutant: a drain of a single message is treated as empty.
NonEmpty_MoreThanOne(msgs) == Len(msgs) > 1

\* `len(msgs) > 0`: Poll returns only a drain that yielded something.
NonEmpty(msgs) == Len(msgs) > 0

\* Poll returns out to consumer c.
Return(c, out, cause) ==
    /\ ret' = [ret EXCEPT ![c] = [kind |-> "poll", out |-> out, n |-> 0,
                                  cause |-> cause, filter |-> filter[c],
                                  limit |-> limit[c]]]
    /\ delivered' = [i \in DOMAIN delivered |->
                        delivered[i] + Cardinality({k \in 1..Len(out) : out[k].ID = i})]
    /\ pc' = [pc EXCEPT ![c] = "done"]
    /\ filter' = [filter EXCEPT ![c] = ""]
    /\ limit' = [limit EXCEPT ![c] = 0]
    /\ notifyCh' = [notifyCh EXCEPT ![c] = 0]
    /\ ctxDone' = [ctxDone EXCEPT ![c] = FALSE]
    /\ ctxAtEntry' = [ctxAtEntry EXCEPT ![c] = FALSE]
    /\ timerFired' = [timerFired EXCEPT ![c] = FALSE]
    /\ drainGen' = [drainGen EXCEPT ![c] = 0]
    /\ enqSeen' = [enqSeen EXCEPT ![c] = 0]
    /\ wakes' = [wakes EXCEPT ![c] = 0]
    /\ chosen' = [chosen EXCEPT ![c] = "none"]

\* Mutant: the call waits on a context of its own that nobody cancels.
CtxDone_Background(cancelled) == FALSE

\* ctx.Done() as the call finds it: closed when ctx was cancelled already.
CtxDone(cancelled) == cancelled

\* A consumer calls Poll(ctx, timeout, limit, channelFilter), ctx possibly
\* cancelled already, and its first statement q.mu.Lock() succeeds.
PollLock1(c, f, l, cancelled) ==
    /\ pc[c] = "idle"
    /\ mu = NoOne
    /\ mu' = c
    /\ filter' = [filter EXCEPT ![c] = f]
    /\ limit' = [limit EXCEPT ![c] = l]
    /\ ctxDone' = [ctxDone EXCEPT ![c] = CtxDone(cancelled)]
    /\ ctxAtEntry' = [ctxAtEntry EXCEPT ![c] = cancelled]
    /\ pc' = [pc EXCEPT ![c] = "P_drain1"]
    /\ UNCHANGED <<seqVars, evicted, q, made, closed, producerVars, notifyCh, timerFired,
                   ret, delivered, drainGen, enqSeen, wakes, chosen>>

\* Mutant: the woken Poll enters its critical section without the mutex
\* being free.
PollLock2_Barges(c) ==
    /\ pc[c] = "P_lock2"
    /\ mu' = c
    /\ pc' = [pc EXCEPT ![c] = "P_drain2"]
    /\ UNCHANGED <<seqVars, evicted, q, made, closed, producerVars, consumerVars>>

\* q.mu.Lock() after a wake-up.
PollLock2(c) ==
    /\ pc[c] = "P_lock2"
    /\ mu = NoOne
    /\ mu' = c
    /\ pc' = [pc EXCEPT ![c] = "P_drain2"]
    /\ UNCHANGED <<seqVars, evicted, q, made, closed, producerVars, consumerVars>>

\* Mutant: the re-drain after a wake-up returns whatever it yields, nothing
\* included.
PollDrain_WakeReturns(c) ==
    /\ pc[c] \in {"P_drain1", "P_drain2"}
    /\ LET r == poll(q, filter[c], limit[c])
       IN  /\ q' = r.q
           /\ mu' = NoOne
           /\ IF NonEmpty(r.out) \/ pc[c] = "P_drain2"
              THEN Return(c, r.out, IF pc[c] = "P_drain1" THEN "first" ELSE "wake")
              ELSE /\ notifyCh' = [notifyCh EXCEPT ![c] = CaptureNotify(q.notify, notifyCh[c])]
                   /\ drainGen' = [drainGen EXCEPT ![c] = q.notify]
                   /\ enqSeen' = [enqSeen EXCEPT ![c] = made]
                   /\ pc' = [pc EXCEPT ![c] = "P_select"]
                   /\ UNCHANGED <<filter, limit, ctxDone, ctxAtEntry, timerFired, ret, delivered,
                                  wakes, chosen>>
    /\ UNCHANGED <<seqVars, evicted, made, closed, producerVars>>

\* The critical section of Poll: q.poll, and when it yields nothing the
\* capture of q.notify, then q.mu.Unlock().  A non-empty result is returned;
\* otherwise the consumer goes to the select (the timer is armed after the
\* first drain).
PollDrain(c) ==
    /\ pc[c] \in {"P_drain1", "P_drain2"}
    /\ LET r == poll(q, filter[c], limit[c])
       IN  /\ q' = r.q
           /\ mu' = NoOne
           /\ IF NonEmpty(r.out)
              THEN Return(c, r.out, IF pc[c] = "P_drain1" THEN "first" ELSE "wake")
              ELSE /\ notifyCh' = [notifyCh EXCEPT ![c] = CaptureNotify(q.notify, notifyCh[c])]
                   /\ drainGen' = [drainGen EXCEPT ![c] = q.notify]
                   /\ enqSeen' = [enqSeen EXCEPT ![c] = made]
                   /\ pc' = [pc EXCEPT ![c] = "P_select"]
                   /\ UNCHANGED <<filter, limit, ctxDone, ctxAtEntry, timerFired, ret, delivered,
                                  wakes, chosen>>
    /\ UNCHANGED <<seqVars, evicted, made, closed, producerVars>>

\* Mutant: the cancellation case makes a last drain and returns what it yields.
SelectDone_Drains(c) ==
    /\ pc[c] = "P_select"
    /\ ctxDone[c]
    /\ mu = NoOne
    /\ LET r == poll(q, filter[c], limit[c])
       IN  q' = r.q /\ Return(c, r.out, "cancel")
    /\ UNCHANGED <<seqVars, evicted, made, closed, mu, producerVars>>

\* select, case <-ctx.Done(): return nil
SelectDone(c) ==
    /\ pc[c] = "P_select"
    /\ ctxDone[c]
    /\ Return(c, <<>>, "cancel")
    /\ UNCHANGED <<seqVars, evicted, q, made, closed, mu, producerVars>>

\* Mutant: the timer case goes round the loop instead of returning.
SelectTimer_Continue(c) ==
    /\ pc[c] = "P_select"
    /\ timerFired[c]
    /\ UNCHANGED vars

\* select, case <-timer.C: return nil
SelectTimer(c) ==
    /\ pc[c] = "P_select"
    /\ timerFired[c]
    /\ Return(c, <<>>, "timeout")
    /\ UNCHANGED <<seqVars, evicted, q, made, closed, mu, producerVars>>

\* select, case <-notifyCh: a message was enqueued; try to collect.
SelectNotify(c) ==
    /\ pc[c] = "P_select"
    /\ notifyCh[c] \in closed
    /\ pc' = [pc EXCEPT ![c] = "P_lock2"]
    /\ wakes' = [wakes EXCEPT ![c] = wakes[c] + 1]
    /\ UNCHANGED <<seqVars, evicted, q, made, closed, mu, producerVars, filter, limit, notifyCh,
                   ctxDone, ctxAtEntry, timerFired, ret, delivered, drainGen, enqSeen, chosen>>

\* The timer of a waiting Poll expires.  timer.C and ctx.Done() are read by
\* the select alone, so they fire here while the goroutine is at the select:
\* a firing during a re-drain is the same firing seen on reaching the select.
TimerFire(c) ==
    /\ pc[c] = "P_select"
    /\ ~timerFired[c]
    /\ timerFired' = [timerFired EXCEPT ![c] = TRUE]
    /\ UNCHANGED <<seqVars, evicted, q, made, closed, mu, pc, producerVars, filter, limit, notifyCh,
                   ctxDone, ctxAtEntry, ret, delivered, drainGen, enqSeen, wakes, chosen>>

\* The caller cancels the context of a waiting Poll.  A cancellation before
\* the first drain is PollCall's already-cancelled ctx.
Cancel(c) ==
    /\ pc[c] = "P_select"
    /\ ~ctxDone[c]
    /\ ctxDone' = [ctxDone EXCEPT ![c] = TRUE]
    /\ UNCHANGED <<seqVars, evicted, q, made, closed, mu, pc, producerVars, filter, limit, notifyCh,
                   ctxAtEntry, timerFired, ret, delivered, drainGen, enqSeen, wakes, chosen>>

\* ------------------------------------------------------------------ Len, step by step
\* A consumer calls Len() and q.mu.Lock() succeeds.
LenLock(c) ==
    /\ pc[c] = "idle"
    /\ mu = NoOne
    /\ mu' = c
    /\ pc' = [pc EXCEPT ![c] = "L_read"]
    /\ UNCHANGED <<seqVars, evicted, q, made, closed, producerVars, consumerVars>>

\* return q.count, with the deferred q.mu.Unlock()
LenRead(c) ==
    /\ pc[c] = "L_read"
    /\ ret' = [ret EXCEPT ![c] = [NoRet EXCEPT !.kind = "len", !.n = q.count]]
    /\ mu' = NoOne
    /\ pc' = [pc EXCEPT ![c] = "done"]
    /\ UNCHANGED <<seqVars, evicted, q, made, closed, producerVars, filter, limit, notifyCh,
                   ctxDone, ctxAtEntry, timerFired, delivered, drainGen, enqSeen, wakes, chosen>>

\* ------------------------------------------------------------------ the concurrent specification
Next ==
    \/ \E p \in Producers, ch \in Channels : EnqueueLock(p, ch)
    \/ \E p \in Producers : EnqueueCrit(p)
    \/ \E p \in Producers : EnqueueClose(p)
    \/ \E c \in Consumers, f \in Filters, l \in Limits, x \in BOOLEAN : PollLock1(c, f, l, x)
    \/ \E c \in Consumers : PollDrain(c)
    \/ \E c \in Consumers : SelectDone(c)
    \/ \E c \in Consumers : SelectTimer(c)
    \/ \E c \in Consumers : SelectNotify(c)
    \/ \E c \in Consumers : PollLock2(c)
    \/ \E c \in Consumers : TimerFire(c)
    \/ \E c \in Consumers : Cancel(c)
    \/ \E c \in Consumers : LenLock(c)
    \/ \E c \in Consumers : LenRead(c)

Spec == Init /\ [][Next]_vars

\* A goroutine at a select with a ready case takes one of the ready cases.
Select(c) == SelectDone(c) \/ SelectTimer(c) \/ SelectNotify(c)

\* The scheduling the Go runtime gives the goroutines of producers Ps and
\* consumers Cs: a goroutine that can run does run, and a goroutine waiting
\* for q.mu gets it once it is free for good.  Calls, timer expiry and
\* cancellation are the environment's and are not forced.
Fairness(Ps, Cs) ==
    /\ \A p \in Ps : WF_vars(EnqueueCrit(p)) /\ WF_vars(EnqueueClose(p))
    /\ \A c \in Cs :
          /\ WF_vars(PollDrain(c))
          /\ WF_vars(Select(c))
          /\ WF_vars(PollLock2(c))
          /\ WF_vars(LenRead(c))

\* ------------------------------------------------------------------ one consumer, fair scheduling
\* The concurrent specification with a single consumer goroutine: the
\* producers as before, and c1 the only caller of Poll and Len.
Solo == {"c1"}

SoloNext ==
    \/ \E p \in Producers, ch \in Channels : EnqueueLock(p, ch)
    \/ \E p \in Producers : EnqueueCrit(p)
    \/ \E p \in Producers : EnqueueClose(p)
    \/ \E c \in Solo, f \in Filters, l \in Limits, x \in BOOLEAN : PollLock1(c, f, l, x)
    \/ \E c \in Solo : PollDrain(c)
    \/ \E c \in Solo : SelectDone(c)
    \/ \E c \in Solo : SelectTimer(c)
    \/ \E c \in Solo : SelectNotify(c)
    \/ \E c \in Solo : PollLock2(c)
    \/ \E c \in Solo : TimerFire(c)
    \/ \E c \in Solo : Cancel(c)
    \/ \E c \in Solo : LenLock(c)
    \/ \E c \in Solo : LenRead(c)

SoloFairSpec == Init /\ [][SoloNext]_vars /\ Fairness(Producers, Solo)

\* The same with time passing: the timer that time.NewTimer(timeout) armed
\* expires while the Poll waits.
TimedFairSpec ==
    /\ Init /\ [][SoloNext]_vars
    /\ Fairness(Producers, Solo)
    /\ \A c \in Solo : WF_vars(TimerFire(c))

\* The same with every producer's call made and q.mu a fair mutex: a
\* goroutine blocked in q.mu.Lock() gets the lock if it is free again and
\* again.
FairMutexSpec ==
    /\ Init /\ [][SoloNext]_vars
    /\ Fairness(Producers, Solo)
    /\ \A p \in Producers : SF_vars(\E ch \in Channels : EnqueueLock(p, ch))

\* ------------------------------------------------------------------ the sequential specification
\* One goroutine calls New(WithMaxSize(n)) and then Enqueue, Poll and Len one
\* after the other; each action is a whole call.
SeqInit ==
    /\ \E n \in 1..MaxCap : q = New(n) /\ opts = <<n>>
    /\ made = 1
    /\ closed = {}
    /\ enqCalls = 0
    /\ mu = NoOne
    /\ pc = [p \in Procs |-> "idle"]
    /\ msg = [p \in Producers |-> ZeroMsg]
    /\ oldNotify = [p \in Producers |-> 0]
    /\ filter = [c \in Consumers |-> ""]
    /\ limit = [c \in Consumers |-> 0]
    /\ notifyCh = [c \in Consumers |-> 0]
    /\ ctxDone = [c \in Consumers |-> FALSE]
    /\ ctxAtEntry = [c \in Consumers |-> FALSE]
    /\ timerFired = [c \in Consumers |-> FALSE]
    /\ ret = [c \in Consumers |-> NoRet]
    /\ delivered = [i \in 1..MaxSeqEnq |-> 0]
    /\ drainGen = [c \in Consumers |-> 0]
    /\ enqSeen = [c \in Consumers |-> 0]
    /\ wakes = [c \in Consumers |-> 0]
    /\ chosen = [c \in Consumers |-> "none"]
    /\ evicted = {}
    /\ enqLog = <<>>
    /\ polls = 0
    /\ last = NoCall
    /\ pre = q
    /\ got = [f \in SeqFilters |-> <<>>]
    /\ sess = NoSession
    /\ safetyFilter = NilFilter

\* Enqueue(msg), whole: lock, critical section, unlock, close(oldNotify).
SeqEnqueue(ch) ==
    /\ enqCalls < MaxSeqEnq
    /\ LET m == Msg(enqCalls + 1, ch)
       IN  /\ q' = EnqueueLocked(q, m, made + 1)
           /\ enqLog' = Append(enqLog, m)
    /\ evicted' = evicted \cup Evicted(q)
    /\ made' = made + 1
    /\ closed' = closed \cup {q.notify}
    /\ enqCalls' = enqCalls + 1
    /\ last' = [NoCall EXCEPT !.op = "enqueue"]
    /\ pre' = q
    /\ UNCHANGED <<polls, got, opts, sess, safetyFilter, concVars>>

\* Poll(ctx, timeout, limit, channelFilter), whole: the first drain, and when
\* it yields nothing the wait, which no Enqueue ends: nil on timeout or
\* cancellation.
SeqPoll(f, l) ==
    /\ LET r == poll(q, f, l)
       IN  /\ q' = r.q
           /\ last' = [NoCall EXCEPT !.op = "poll", !.filter = f, !.limit = l,
                                     !.out = r.out]
    /\ pre' = q
    /\ polls' = IF polls < 2 THEN polls + 1 ELSE polls
    /\ UNCHANGED <<made, closed, enqCalls, evicted, enqLog, got, opts, sess, safetyFilter, concVars>>

\* Len(), whole.
SeqLen ==
    /\ last' = [NoCall EXCEPT !.op = "len", !.n = q.count]
    /\ pre' = q
    /\ UNCHANGED <<q, made, closed, enqCalls, evicted, enqLog, polls, got, opts, sess, safetyFilter, concVars>>

SeqNext ==
    \/ \E ch \in Channels : SeqEnqueue(ch)
    \/ \E f \in SeqFilters, l \in SeqLimits : SeqPoll(f, l)
    \/ SeqLen

SeqSpec == SeqInit /\ [][SeqNext]_vars

\* ------------------------------------------------------------------ one producer, consumers with fixed filters
\* Poll(ctx, timeout, limit, channelFilter), whole, by the consumer that
\* always polls with channelFilter f: its result is added to what it got.
LoggedPoll(f, l) ==
    /\ LET r == poll(q, f, l)
       IN  /\ q' = r.q
           /\ got' = [got EXCEPT ![f] = @ \o r.out]
    /\ UNCHANGED <<made, closed, enqCalls, evicted, enqLog, polls, last, pre, opts, sess, safetyFilter, concVars>>

\* One producer calls Enqueue again and again; between its calls consumers,
\* one per channelFilter, call Poll with any limit.
OrderNext ==
    \/ \E ch \in Channels : SeqEnqueue(ch)
    \/ \E f \in SeqFilters, l \in SeqLimits : LoggedPoll(f, l)

OrderSpec == SeqInit /\ [][OrderNext]_vars

\* ------------------------------------------------------------------ construction
\* The sizes handed to WithMaxSize, and the option lists handed to New: none,
\* one option, or two.
OptSizes == (-1)..MaxCap
OptLists == {<<>>} \cup {<<n>> : n \in OptSizes} \cup {<<n, m>> : n, m \in OptSizes}

ConstructInit ==
    /\ opts \in OptLists
    /\ q = NilQueue
    /\ made = 0
    /\ closed = {}
    /\ enqCalls = 0
    /\ mu = NoOne
    /\ pc = [p \in Procs |-> "idle"]
    /\ msg = [p \in Producers |-> ZeroMsg]
    /\ oldNotify = [p \in Producers |-> 0]
    /\ filter = [c \in Consumers |-> ""]
    /\ limit = [c \in Consumers |-> 0]
    /\ notifyCh = [c \in Consumers |-> 0]
    /\ ctxDone = [c \in Consumers |-> FALSE]
    /\ ctxAtEntry = [c \in Consumers |-> FALSE]
    /\ timerFired = [c \in Consumers |-> FALSE]
    /\ ret = [c \in Consumers |-> NoRet]
    /\ delivered = [i \in 1..MaxSeqEnq |-> 0]
    /\ drainGen = [c \in Consumers |-> 0]
    /\ enqSeen = [c \in Consumers |-> 0]
    /\ wakes = [c \in Consumers |-> 0]
    /\ chosen = [c \in Consumers |-> "none"]
    /\ evicted = {}
    /\ enqLog = <<>>
    /\ polls = 0
    /\ last = NoCall
    /\ pre = NilQueue
    /\ got = [f \in SeqFilters |-> <<>>]
    /\ sess = NoSession
    /\ safetyFilter = NilFilter

\* q := New(opts...)
Construct ==
    /\ q = NilQueue
    /\ q' = NewQueue(opts)
    /\ made' = 1
    /\ last' = [NoCall EXCEPT !.op = "new"]
    /\ pre' = q
    /\ UNCHANGED <<closed, enqCalls, evicted, enqLog, polls, got, opts, sess, safetyFilter, concVars>>

\* New, then Enqueue and Len calls on the queue it returned.
ConstructNext ==
    \/ Construct
    \/ q # NilQueue /\ \E ch \in Channels : SeqEnqueue(ch)
    \/ q # NilQueue /\ SeqLen

ConstructSpec == ConstructInit /\ [][ConstructNext]_vars

\* ------------------------------------------------------------------ producers that never stop
\* A producer calls Enqueue again and again while c1 polls.  No history is
\* kept of its calls: every message carries the same ID, and a channel that
\* no goroutine and no queue refers to any more is forgotten and gives its
\* number to a later make().
Endless == {"p1"}

\* The notify channels something still refers to.
InUse ==
    {q.notify}
    \cup {oldNotify[p] : p \in {r \in Producers : pc[r] = "E_close"}}
    \cup {notifyCh[c] : c \in {d \in Consumers : pc[d] \in {"P_select", "P_lock2", "P_drain2"}}}

\* The closed channels among those something still refers to.
Referenced(chans) == chans \cap InUse

\* The channel the next make(chan struct{}) returns.
FreshChan == CHOOSE n \in 1..(Cardinality(Procs) + 2) :
                 n \notin InUse /\ \A m \in 1..(n - 1) : m \in InUse

\* Enqueue is called and q.mu.Lock() succeeds.
EndlessLock(p, ch) ==
    /\ pc[p] = "idle"
    /\ mu = NoOne
    /\ mu' = p
    /\ msg' = [msg EXCEPT ![p] = Msg(MaxID, ch)]
    /\ pc' = [pc EXCEPT ![p] = "E_crit"]
    /\ UNCHANGED <<seqVars, evicted, q, made, closed, oldNotify, enqCalls, consumerVars>>

\* The critical section of Enqueue, with the channel make() returns.
EndlessCrit(p) ==
    /\ pc[p] = "E_crit"
    /\ q' = EnqueueLocked(q, msg[p], FreshChan)
    /\ closed' = Referenced(closed) \ {FreshChan}
    /\ oldNotify' = [oldNotify EXCEPT ![p] = q.notify]
    /\ mu' = NoOne
    /\ pc' = [pc EXCEPT ![p] = "E_close"]
    /\ UNCHANGED <<seqVars, evicted, made, msg, enqCalls, consumerVars>>

\* close(oldNotify); Enqueue returns and the producer is free to call again.
EndlessClose(p) ==
    /\ pc[p] = "E_close"
    /\ closed' = Referenced(Close(closed, oldNotify[p]))
    /\ oldNotify' = [oldNotify EXCEPT ![p] = 0]
    /\ pc' = [pc EXCEPT ![p] = "idle"]
    /\ msg' = [msg EXCEPT ![p] = ZeroMsg]
    /\ UNCHANGED <<seqVars, evicted, q, made, mu, enqCalls, consumerVars>>

\* Mutant: the timer is made inside the loop, so every wake-up starts the
\* timeout anew.
WakeUp_RearmsTimer(c) ==
    /\ pc[c] = "P_select"
    /\ notifyCh[c] \in closed
    /\ pc' = [pc EXCEPT ![c] = "P_lock2"]
    /\ wakes' = [wakes EXCEPT ![c] = IF @ < MaxWakes THEN @ + 1 ELSE @]
    /\ timerFired' = [timerFired EXCEPT ![c] = FALSE]
    /\ UNCHANGED <<seqVars, evicted, q, made, closed, mu, producerVars, filter, limit, notifyCh,
                   ctxDone, ctxAtEntry, ret, delivered, drainGen, enqSeen, chosen>>

\* select, case <-notifyCh, the wake-ups counted up to MaxWakes.
WakeUp(c) ==
    /\ pc[c] = "P_select"
    /\ notifyCh[c] \in closed
    /\ pc' = [pc EXCEPT ![c] = "P_lock2"]
    /\ wakes' = [wakes EXCEPT ![c] = IF @ < MaxWakes THEN @ + 1 ELSE @]
    /\ UNCHANGED <<seqVars, evicted, q, made, closed, mu, producerVars, filter, limit, notifyCh,
                   ctxDone, ctxAtEntry, timerFired, ret, delivered, drainGen, enqSeen, chosen>>

EndlessNext ==
    \/ \E p \in Endless, ch \in Channels : EndlessLock(p, ch)
    \/ \E p \in Endless : EndlessCrit(p)
    \/ \E p \in Endless : EndlessClose(p)
    \/ \E c \in Solo, f \in Filters, l \in Limits : PollLock1(c, f, l, FALSE)
    \/ \E c \in Solo : PollDrain(c)
    \/ \E c \in Solo : SelectTimer(c)
    \/ \E c \in Solo : WakeUp(c)
    \/ \E c \in Solo : PollLock2(c)
    \/ \E c \in Solo : TimerFire(c)

\* The scheduling: a goroutine that can run does run, q.mu is a fair mutex (a
\* goroutine blocked in Lock gets the mutex if it is free again and again),
\* and a select that is reached again and again with timer.C ready takes that
\* case in the end, its choice among the ready cases being uniformly random.
\* Calls and timer expiry are not forced; ctx is never cancelled.
EndlessFairSpec ==
    /\ Init /\ [][EndlessNext]_vars
    /\ \A p \in Endless : WF_vars(EndlessCrit(p)) /\ WF_vars(EndlessClose(p))
    /\ \A c \in Solo :
          /\ WF_vars(PollDrain(c))
          /\ WF_vars(SelectTimer(c) \/ WakeUp(c))
          /\ SF_vars(PollLock2(c))
          /\ SF_vars(SelectTimer(c))

\* ------------------------------------------------------------------ the select, blocked
\* In the specifications above a Poll at its select has yet to evaluate it:
\* it takes any case that is ready.  Here the goroutine may also block in the
\* select with no case ready, and the first channel operation that reaches
\* it (the timer's send, the close of ctx.Done() or of notifyCh) fixes the
\* case it resumes with.

\* A case of consumer c's select can proceed.
Ready(c) == ctxDone[c] \/ timerFired[c] \/ notifyCh[c] \in closed

\* The select after a channel operation on one of its cases: a blocked
\* select is unblocked with that case, any other is as it was.
Unblock(state, case) == IF state = "parked" THEN case ELSE state

\* Mutant: the resumed select takes any case that can proceed by then.
ResumesWith_AnyReady(c, case) ==
    /\ chosen[c] \in {"timer", "done", "notify"}
    /\ \/ case = "timer" /\ timerFired[c]
       \/ case = "done" /\ ctxDone[c]
       \/ case = "notify" /\ notifyCh[c] \in closed

\* The select of consumer c was unblocked with this case.
ResumesWith(c, case) == chosen[c] = case

\* select with no case ready: the goroutine blocks.
Park(c) ==
    /\ pc[c] = "P_select"
    /\ chosen[c] = "none"
    /\ ~Ready(c)
    /\ chosen' = [chosen EXCEPT ![c] = "parked"]
    /\ UNCHANGED <<seqVars, evicted, q, made, closed, mu, pc, producerVars, filter, limit,
                   notifyCh, ctxDone, ctxAtEntry, timerFired, ret, delivered, drainGen,
                   enqSeen, wakes>>

\* The timer expires: its send unblocks the select when it is blocked.
TimerExpires(c) ==
    /\ pc[c] = "P_select"
    /\ ~timerFired[c]
    /\ timerFired' = [timerFired EXCEPT ![c] = TRUE]
    /\ chosen' = [chosen EXCEPT ![c] = Unblock(@, "timer")]
    /\ UNCHANGED <<seqVars, evicted, q, made, closed, mu, pc, producerVars, filter, limit,
                   notifyCh, ctxDone, ctxAtEntry, ret, delivered, drainGen, enqSeen, wakes>>

\* The caller cancels ctx: the close of ctx.Done() unblocks the select when
\* it is blocked.
CancelCtx(c) ==
    /\ pc[c] = "P_select"
    /\ ~ctxDone[c]
    /\ ctxDone' = [ctxDone EXCEPT ![c] = TRUE]
    /\ chosen' = [chosen EXCEPT ![c] = Unblock(@, "done")]
    /\ UNCHANGED <<seqVars, evicted, q, made, closed, mu, pc, producerVars, filter, limit,
                   notifyCh, ctxAtEntry, timerFired, ret, delivered, drainGen, enqSeen,
                   wakes>>

\* close(oldNotify) unblocks every select blocked on that channel.
EnqueueCloseWakes(p) ==
    /\ pc[p] = "E_close"
    /\ closed' = Close(closed, oldNotify[p])
    /\ chosen' = [c \in Consumers |->
                    IF notifyCh[c] = oldNotify[p] /\ oldNotify[p] \notin closed
                    THEN Unblock(chosen[c], "notify")
                    ELSE chosen[c]]
    /\ pc' = [pc EXCEPT ![p] = "done"]
    /\ msg' = [msg EXCEPT ![p] = ZeroMsg]
    /\ UNCHANGED <<seqVars, evicted, q, made, mu, oldNotify, enqCalls, filter, limit,
                   notifyCh, ctxDone, ctxAtEntry, timerFired, ret, delivered, drainGen,
                   enqSeen, wakes>>

\* The unblocked goroutine runs: case <-ctx.Done(): return nil
ResumeDone(c) ==
    /\ pc[c] = "P_select"
    /\ ResumesWith(c, "done")
    /\ Return(c, <<>>, "cancel")
    /\ UNCHANGED <<seqVars, evicted, q, made, closed, mu, producerVars>>

\* The unblocked goroutine runs: case <-timer.C: return nil
ResumeTimer(c) ==
    /\ pc[c] = "P_select"
    /\ ResumesWith(c, "timer")
    /\ Return(c, <<>>, "timeout")
    /\ UNCHANGED <<seqVars, evicted, q, made, closed, mu, producerVars>>

\* The unblocked goroutine runs: case <-notifyCh, on to q.mu.Lock().
ResumeNotify(c) ==
    /\ pc[c] = "P_select"
    /\ ResumesWith(c, "notify")
    /\ pc' = [pc EXCEPT ![c] = "P_lock2"]
    /\ wakes' = [wakes EXCEPT ![c] = wakes[c] + 1]
    /\ chosen' = [chosen EXCEPT ![c] = "none"]
    /\ UNCHANGED <<seqVars, evicted, q, made, closed, mu, producerVars, filter, limit, notifyCh,
                   ctxDone, ctxAtEntry, timerFired, ret, delivered, drainGen, enqSeen>>

\* The producers, and c1 calling Poll: its select takes a ready case at once
\* or blocks.
ParkNext ==
    \/ \E p \in Producers, ch \in Channels : EnqueueLock(p, ch)
    \/ \E p \in Producers : EnqueueCrit(p)
    \/ \E p \in Producers : EnqueueCloseWakes(p)
    \/ \E c \in Solo, f \in Filters, l \in Limits, x \in BOOLEAN : PollLock1(c, f, l, x)
    \/ \E c \in Solo : PollDrain(c)
    \/ \E c \in Solo : chosen[c] = "none" /\ SelectDone(c)
    \/ \E c \in Solo : chosen[c] = "none" /\ SelectTimer(c)
    \/ \E c \in Solo : chosen[c] = "none" /\ SelectNotify(c)
    \/ \E c \in Solo : Park(c)
    \/ \E c \in Solo : TimerExpires(c)
    \/ \E c \in Solo : CancelCtx(c)
    \/ \E c \in Solo : ResumeDone(c)
    \/ \E c \in Solo : ResumeTimer(c)
    \/ \E c \in Solo : ResumeNotify(c)
    \/ \E c \in Solo : PollLock2(c)

ParkSpec == Init /\ [][ParkNext]_vars

\* ------------------------------------------------------------------ ingestion
\* safety.NewFilter(allowlist, denylist), the lists as sets of patterns.
NewFilter(allowlist, denylist) == [nil |-> FALSE, allow |-> allowlist, deny |-> denylist]

\* Some pattern of the list matches the resource: the resource itself, or "*".
MatchesAny(patterns, resource) == \E pat \in patterns : pat = resource \/ pat = "*"

\* Filter.IsAllowed(resource): deny wins over allow, and an empty allowlist
\* allows everything.
IsAllowed(f, resource) ==
    /\ ~MatchesAny(f.deny, resource)
    /\ (f.allow = {} \/ MatchesAny(f.allow, resource))

\* Resolver.ChannelName(id): the cached name, or the ID when it is not cached.
ChannelName(byID, id) ==
    IF \E ch \in byID : ch.id = id
    THEN (CHOOSE ch \in byID : ch.id = id).name
    ELSE id

\* Mutant: a message without a guild counts as the guild's own.
SameGuild_OrNone(eventGuild, guildID) == eventGuild = guildID \/ eventGuild = ""

\* `event.GuildID != s.guildID` is false.
SameGuild(eventGuild, guildID) == eventGuild = guildID

\* The checks of onMessageCreate that an event must pass to be enqueued.
Accepted(s, e) ==
    /\ e.author # "nil"
    /\ e.author # "bot"
    /\ SameGuild(e.guild, s.guildID)
    /\ ~(s.filter # NilFilter /\ ~IsAllowed(s.filter, ChannelName(s.byID, e.channel)))

\* The inputs: guild IDs, authors (none, a bot, a user), the IDs of channels
\* a and b and of one the resolver does not know, and the filters a Session
\* is built with.
GuildIDs == {"g1", ""}
EventGuilds == {"g1", "g9", ""}
Authors == {"nil", "bot", "user"}
EventChannels == {ChanA.id, ChanB.id, "9"}
SessionFilters ==
    {NilFilter, NewFilter({}, {}), NewFilter({}, {"b"}), NewFilter({"a"}, {}),
     NewFilter({"*"}, {"a"})}
Events == [author : Authors, guild : EventGuilds, channel : EventChannels]

\* newFromSessionFull on a new queue, the resolver's cache empty or loaded.
IngestInit ==
    /\ \E n \in 1..MaxCap : q = New(n) /\ opts = <<n>>
    /\ sess \in [guildID : GuildIDs, filter : SessionFilters, byID : {{}, Channels}]
    /\ safetyFilter = NilFilter
    /\ made = 1
    /\ closed = {}
    /\ enqCalls = 0
    /\ mu = NoOne
    /\ pc = [p \in Procs |-> "idle"]
    /\ msg = [p \in Producers |-> ZeroMsg]
    /\ oldNotify = [p \in Producers |-> 0]
    /\ filter = [c \in Consumers |-> ""]
    /\ limit = [c \in Consumers |-> 0]
    /\ notifyCh = [c \in Consumers |-> 0]
    /\ ctxDone = [c \in Consumers |-> FALSE]
    /\ ctxAtEntry = [c \in Consumers |-> FALSE]
    /\ timerFired = [c \in Consumers |-> FALSE]
    /\ ret = [c \in Consumers |-> NoRet]
    /\ delivered = [i \in 1..MaxSeqEnq |-> 0]
    /\ drainGen = [c \in Consumers |-> 0]
    /\ enqSeen = [c \in Consumers |-> 0]
    /\ wakes = [c \in Consumers |-> 0]
    /\ chosen = [c \in Consumers |-> "none"]
    /\ evicted = {}
    /\ enqLog = <<>>
    /\ polls = 0
    /\ last = NoCall
    /\ pre = q
    /\ got = [f \in SeqFilters |-> <<>>]

\* onMessageCreate(dg, event), whole: the event is dropped, or its message is
\* built with the resolved channel name and passed to Enqueue.  The event's
\* ID is the number of the message it would be.
OnMessageCreate(e) ==
    /\ enqCalls < MaxSeqEnq
    /\ last' = [op |-> "event", id |-> enqCalls + 1, author |-> e.author,
                guild |-> e.guild, channel |-> e.channel]
    /\ pre' = q
    /\ IF Accepted(sess, e)
       THEN LET m == Msg(enqCalls + 1,
                         [id |-> e.channel, name |-> ChannelName(sess.byID, e.channel)])
            IN  /\ q' = EnqueueLocked(q, m, made + 1)
                /\ enqLog' = Append(enqLog, m)
                /\ evicted' = evicted \cup Evicted(q)
                /\ made' = made + 1
                /\ closed' = closed \cup {q.notify}
                /\ enqCalls' = enqCalls + 1
       ELSE UNCHANGED <<q, enqLog, evicted, made, closed, enqCalls>>
    /\ UNCHANGED <<polls, got, opts, sess, safetyFilter, concVars>>

\* The gateway delivers events, and a caller asks for the length.
IngestNext ==
    \/ \E e \in Events : OnMessageCreate(e)
    \/ SeqLen

IngestSpec == IngestInit /\ [][IngestNext]_vars

\* ------------------------------------------------------------------ the poll tool
DefaultTimeoutSec == 30
MaxTimeoutSec == 300
DefaultLimit == 50

\* An argument the request does not carry, and one it carries.
Absent == [present |-> FALSE, v |-> 0]
Arg(n) == [present |-> TRUE, v |-> n]

\* req.GetInt(key, dflt) on the argument of that key.
GetInt(arg, dflt) == IF arg.present THEN arg.v ELSE dflt

\* Mutant: the upper cap on the timeout is missing.
ClampTimeout_NoCap(arg) ==
    LET t == GetInt(arg, DefaultTimeoutSec)
    IN  IF t <= 0 THEN DefaultTimeoutSec ELSE t

\* timeoutSec of the handler.
ClampTimeout(arg) ==
    LET t == GetInt(arg, DefaultTimeoutSec)
        u == IF t <= 0 THEN DefaultTimeoutSec ELSE t
    IN  IF u > MaxTimeoutSec THEN MaxTimeoutSec ELSE u

\* limit of the handler.
ClampLimit(arg) ==
    LET l == GetInt(arg, DefaultLimit)
    IN  IF l <= 0 THEN DefaultLimit ELSE l

\* A channel parameter is a string, here the sequence of its characters.
Digits == {"0", "1", "2", "3", "4", "5", "6", "7", "8", "9"}
TrimPrefix(cs) == IF Len(cs) > 0 /\ cs[1] = "#" THEN Tail(cs) ELSE cs
AllDigits(cs) == Len(cs) > 0 /\ \A i \in 1..Len(cs) : cs[i] \in Digits

\* The string of at most one character.
Str(cs) == IF cs = <<>> THEN "" ELSE cs[1]

\* Resolver.ChannelID(name): the ID cached under the name, or an error.
ChannelID(byID, name) ==
    IF \E ch \in byID : ch.name = name
    THEN [err |-> FALSE, id |-> (CHOOSE ch \in byID : ch.name = name).id]
    ELSE [err |-> TRUE, id |-> ""]

\* resolve.ResolveChannelParam(r, channel): digits are an ID already, any
\* other string is looked up as a name.
ResolveChannelParam(byID, cs) ==
    LET t == TrimPrefix(cs)
    IN  IF AllDigits(t)
        THEN [err |-> FALSE, id |-> Str(t)]
        ELSE ChannelID(byID, Str(TrimPrefix(t)))

\* The requests: the two numbers absent, below, at and above their limits,
\* and the channel absent, a name with and without "#", an ID, an unknown
\* name and a lone "#"; every timeout with two limits and two channels, and
\* every limit with every channel.
TimeoutArgs == {Absent} \cup {Arg(n) : n \in {-1, 0, 1, MaxTimeoutSec, MaxTimeoutSec + 1}}
LimitArgs == {Absent} \cup {Arg(n) : n \in {-1, 0, 1, 2, DefaultLimit + 1}}
ChannelArgs == {<<>>, <<"a">>, <<"#", "a">>, <<"2">>, <<"x">>, <<"#">>}
Requests ==
    [timeout_seconds : TimeoutArgs, limit : {Absent, Arg(1)}, channel : {<<>>, <<"#", "a">>}]
    \cup [timeout_seconds : {Absent}, limit : LimitArgs, channel : ChannelArgs]

\* The tool registered on a queue that has taken the start-up traffic, the
\* resolver's cache loaded or not.
ToolInit ==
    /\ \E k \in 0..(Cap + 1) :
          /\ q = Prefilled(Cap, k)
          /\ opts = <<Cap>>
          /\ made = k + 1
          /\ closed = 1..k
          /\ enqCalls = k
          /\ enqLog = [i \in 1..k |-> Msg(i, PrefillChan(i))]
          /\ evicted = {i \in 1..k : i <= k - Cap}
    /\ sess \in [guildID : {"g1"}, filter : {NilFilter}, byID : {{}, Channels}]
    /\ safetyFilter \in {NewFilter({}, {}), NewFilter({}, {"b"})}
    /\ mu = NoOne
    /\ pc = [p \in Procs |-> "idle"]
    /\ msg = [p \in Producers |-> ZeroMsg]
    /\ oldNotify = [p \in Producers |-> 0]
    /\ filter = [c \in Consumers |-> ""]
    /\ limit = [c \in Consumers |-> 0]
    /\ notifyCh = [c \in Consumers |-> 0]
    /\ ctxDone = [c \in Consumers |-> FALSE]
    /\ ctxAtEntry = [c \in Consumers |-> FALSE]
    /\ timerFired = [c \in Consumers |-> FALSE]
    /\ ret = [c \in Consumers |-> NoRet]
    /\ delivered = [i \in 1..MaxID |-> 0]
    /\ drainGen = [c \in Consumers |-> 0]
    /\ enqSeen = [c \in Consumers |-> 0]
    /\ wakes = [c \in Consumers |-> 0]
    /\ chosen = [c \in Consumers |-> "none"]
    /\ polls = 0
    /\ last = NoCall
    /\ pre = q
    /\ got = [f \in SeqFilters |-> <<>>]

\* The handler of discord_poll_messages, whole: the numbers are clamped, the
\* channel is resolved (an error ends the call before Poll), and Poll runs
\* with nothing else running.
ToolPollMessages(req) ==
    LET timeoutSec == ClampTimeout(req.timeout_seconds)
        lim == ClampLimit(req.limit)
        resolved == IF req.channel # <<>>
                    THEN ResolveChannelParam(sess.byID, req.channel)
                    ELSE [err |-> FALSE, id |-> ""]
        r == poll(q, resolved.id, lim)
    IN  /\ IF resolved.err
           THEN /\ last' = [op |-> "tool", req |-> req, polled |-> FALSE,
                            timeout |-> 0, limit |-> 0, filter |-> "", out |-> <<>>]
                /\ q' = q
           ELSE /\ last' = [op |-> "tool", req |-> req, polled |-> TRUE,
                            timeout |-> timeoutSec, limit |-> lim,
                            filter |-> resolved.id, out |-> r.out]
                /\ q' = r.q
        /\ UNCHANGED <<made, closed, enqCalls, evicted, enqLog, polls, pre, got, opts,
                       sess, safetyFilter, concVars>>

ToolNext == \E req \in Requests : ToolPollMessages(req)

ToolSpec == ToolInit /\ [][ToolNext]_vars

\* ------------------------------------------------------------------ the wiring of main
\* The filters the configuration can ask for: safety.NewFilter never gives nil.
ConfiguredFilters == SessionFilters \ {NilFilter}

\* The requests of the wired server: every channel argument, the limit and
\* the timeout absent.
WiredRequests == [timeout_seconds : {Absent}, limit : {Absent}, channel : ChannelArgs]

\* main, steps 5 to 12: channelFilter is built from the configuration, the
\* queue is new, discord.NewFromSession makes the Session with a nil filter,
\* and MessageTools gets channelFilter.
WiredInit ==
    /\ q = New(Cap) /\ opts = <<Cap>>
    /\ sess \in [guildID : {"g1"}, filter : {NilFilter}, byID : {{}, Channels}]
    /\ safetyFilter \in ConfiguredFilters
    /\ made = 1
    /\ closed = {}
    /\ enqCalls = 0
    /\ mu = NoOne
    /\ pc = [p \in Procs |-> "idle"]
    /\ msg = [p \in Producers |-> ZeroMsg]
    /\ oldNotify = [p \in Producers |-> 0]
    /\ filter = [c \in Consumers |-> ""]
    /\ limit = [c \in Consumers |-> 0]
    /\ notifyCh = [c \in Consumers |-> 0]
    /\ ctxDone = [c \in Consumers |-> FALSE]
    /\ ctxAtEntry = [c \in Consumers |-> FALSE]
    /\ timerFired = [c \in Consumers |-> FALSE]
    /\ ret = [c \in Consumers |-> NoRet]
    /\ delivered = [i \in 1..MaxSeqEnq |-> 0]
    /\ drainGen = [c \in Consumers |-> 0]
    /\ enqSeen = [c \in Consumers |-> 0]
    /\ wakes = [c \in Consumers |-> 0]
    /\ chosen = [c \in Consumers |-> "none"]
    /\ evicted = {}
    /\ enqLog = <<>>
    /\ polls = 0
    /\ last = NoCall
    /\ pre = q
    /\ got = [f \in SeqFilters |-> <<>>]

\* The events of the wired server: a user's or a bot's message, in the
\* configured guild or another, on channel a or b.
WiredEvents == [author : {"user", "bot"}, guild : {"g1", "g9"}, channel : {ChanA.id, ChanB.id}]

\* The gateway delivers events and the MCP client calls discord_poll_messages.
WiredNext ==
    \/ \E e \in WiredEvents : OnMessageCreate(e)
    \/ \E req \in WiredRequests : ToolPollMessages(req)

WiredSpec == WiredInit /\ [][WiredNext]_vars

\* ------------------------------------------------------------------ helpers of the properties
\* The live messages of the ring s, oldest first.
Live(s) == [i \in 1..s.count |-> s.buf[(s.head + i - 1) % s.maxSize]]

\* The IDs of a sequence of messages, as a set.
IDs(msgs) == {msgs[i].ID : i \in 1..Len(msgs)}

\* The messages of a sequence are pairwise distinct.
Distinct(msgs) == \A i, j \in 1..Len(msgs) : msgs[i].ID = msgs[j].ID => i = j

PollDone(c) == pc[c] = "done" /\ ret[c].kind = "poll"

\* ------------------------------------------------------------------ C1
\* C1: under every interleaving of Enqueue and Poll calls, filtered or not, no
\* entry is returned by two Poll calls or twice by one, and an entry that a
\* Poll has returned is no longer in the store for any other Poll to see.
C1_NoEntryReturnedTwice ==
    /\ \A i \in DOMAIN delivered : delivered[i] <= 1
    /\ \A c \in Consumers : Distinct(ret[c].out)
    /\ \A c, d \in Consumers : c # d => IDs(ret[c].out) \cap IDs(ret[d].out) = {}
    /\ \A c \in Consumers : IDs(ret[c].out) \cap IDs(Live(q)) = {}

\* Both consumers got entries, one of them after a wake-up by a concurrent
\* Enqueue, one of them through a filter.
C1_Witness ==
    \E c, d \in Consumers :
        /\ c # d
        /\ PollDone(c) /\ PollDone(d)
        /\ ret[c].out # <<>> /\ ret[d].out # <<>>
        /\ ret[c].cause = "wake"
        /\ \E e \in {c, d} : ret[e].filter # ""

\* ------------------------------------------------------------------ C2
\* The entries the store held when the concurrent calls began: the last
\* min(enqCalls, capacity) of the start-up traffic (while no producer has
\* called Enqueue, enqCalls is still the start-up count).
StartIDs == {i \in 1..enqCalls : i > enqCalls - q.maxSize}

\* The limits of the two callers together cover m entries.
Covers(m) ==
    \/ \E c \in Consumers : ret[c].limit <= 0
    \/ ret["c1"].limit + ret["c2"].limit >= m

\* No producer has called Enqueue and every consumer has made an unfiltered
\* Poll call that has returned.
DrainedUnfiltered ==
    /\ \A p \in Producers : pc[p] = "idle"
    /\ \A c \in Consumers : PollDone(c) /\ ret[c].filter = ""
    /\ Covers(Cardinality(StartIDs))

\* C2: when a store of M distinct entries, with no further Enqueue, is drained
\* by concurrent unfiltered Poll callers whose limits together cover M, the
\* results taken together hold each of the M entries exactly once, whatever
\* the interleaving and whichever callers time out empty.
C2_DrainExactlyOnce ==
    DrainedUnfiltered =>
        /\ IDs(ret["c1"].out) \cup IDs(ret["c2"].out) = StartIDs
        /\ IDs(ret["c1"].out) \cap IDs(ret["c2"].out) = {}
        /\ Distinct(ret["c1"].out) /\ Distinct(ret["c2"].out)
        /\ \A i \in StartIDs : delivered[i] = 1
        /\ q.count = 0

\* A full store shared out between two callers with limit 1 each.
C2_Witness ==
    /\ DrainedUnfiltered
    /\ Cardinality(StartIDs) >= 2
    /\ \A c \in Consumers : ret[c].limit = 1 /\ Len(ret[c].out) = 1

\* ------------------------------------------------------------------ C3
\* Producer p's critical section ran after consumer c's last drain.
EnqueuedAfterDrain(p, c) ==
    /\ pc[p] \in {"E_close", "done"}
    /\ oldNotify[p] >= drainGen[c]

\* C3 as stated: the signal a waiting Poll holds was captured in the critical
\* section of its failed drain, and every Enqueue ordered after that drain
\* fires exactly the signal the Poll is waiting on.
C3_EveryEnqueueFiresAwaited ==
    \A c \in Consumers : pc[c] = "P_select" =>
        /\ notifyCh[c] = drainGen[c]
        /\ \A p \in Producers : EnqueuedAfterDrain(p, c) => oldNotify[p] = notifyCh[c]

\* C3 (amended): no wake-up is lost.  The signal a waiting Poll holds was
\* captured in the critical section of its failed drain (first attempt or
\* re-attempt).  While no Enqueue has run since, it is the installed signal
\* and not fired; once an Enqueue critical section has run after the drain,
\* it is fired or in the hands of a producer that is past its unlock and about
\* to fire it: the first Enqueue ordered after the drain, not every one.
C3_NoLostWakeup ==
    \A c \in Consumers : pc[c] = "P_select" =>
        /\ notifyCh[c] = drainGen[c]
        /\ made = enqSeen[c] => notifyCh[c] = q.notify /\ notifyCh[c] \notin closed
        /\ made > enqSeen[c] =>
              \/ notifyCh[c] \in closed
              \/ \E p \in Producers : pc[p] = "E_close" /\ oldNotify[p] = notifyCh[c]

\* A Poll waiting again after a wake-up while an Enqueue that ran after its
\* re-drain has unlocked and not yet closed the signal.
C3_Witness ==
    \E c \in Consumers :
        /\ pc[c] = "P_select"
        /\ wakes[c] >= 1
        /\ made > enqSeen[c]
        /\ notifyCh[c] \notin closed

\* ------------------------------------------------------------------ C4
\* C4: in every reachable state, under any interleaving of Enqueue, Poll and
\* Len calls, 0 <= count <= capacity (and Len never reports anything else).
C4_CountInRange ==
    /\ 0 <= q.count /\ q.count <= q.maxSize
    /\ \A c \in Consumers : ret[c].kind = "len" => ret[c].n \in 0..q.maxSize

\* The store is full again after an eviction, a Poll that took entries and a
\* Len call.
C4_Witness ==
    /\ q.count = q.maxSize
    /\ enqCalls > q.maxSize
    /\ \A p \in Producers : pc[p] = "done"
    /\ \E c \in Consumers : PollDone(c) /\ ret[c].out # <<>>
    /\ \E c \in Consumers : ret[c].kind = "len"

\* ------------------------------------------------------------------ helpers of the sequential properties
\* The last n messages of a sequence (all of it when it is shorter).
LastN(msgs, n) ==
    IF Len(msgs) <= n THEN msgs ELSE SubSeq(msgs, Len(msgs) - n + 1, Len(msgs))

\* The guild channel a channelFilter names, by ID or by name.
FilterChan(f) == CHOOSE ch \in Channels : ch.id = f \/ ch.name = f
NamesChannel(f) == \E ch \in Channels : ch.id = f \/ ch.name = f

\* Message m arrived on channel ch.
OnChan(m, ch) == m.ChannelID = ch.id /\ m.ChannelName = ch.name

\* The messages of a sequence that arrived on ch, and the others, in order.
OnlyChan(msgs, ch) == SelectSeq(msgs, LAMBDA m : OnChan(m, ch))
OtherChan(msgs, ch) == SelectSeq(msgs, LAMBDA m : ~OnChan(m, ch))

\* The call just made is the run's first Poll call: only Enqueue and Len
\* calls came before it.
FirstPollJustReturned == last.op = "poll" /\ polls = 1

\* ------------------------------------------------------------------ C5
\* C5 as stated: for any sequence of N Enqueue calls followed by one
\* unfiltered Poll with limit >= N, the sequence Poll returns equals the
\* enqueue order.
C5_FifoAnyN ==
    (FirstPollJustReturned /\ last.filter = "" /\ last.limit >= Len(enqLog))
        => last.out = enqLog

\* C5 (amended): for any sequence of N <= capacity Enqueue calls followed by
\* one unfiltered Poll with limit >= N, the sequence Poll returns equals the
\* enqueue order.
C5_FifoWithinCapacity ==
    (/\ FirstPollJustReturned /\ last.filter = "" /\ last.limit >= Len(enqLog)
     /\ Len(enqLog) <= q.maxSize)
        => last.out = enqLog

\* A ring filled to its capacity of at least two and polled with limit = N.
C5_Witness ==
    /\ FirstPollJustReturned /\ last.filter = "" /\ last.limit = Len(enqLog)
    /\ Len(enqLog) = q.maxSize /\ q.maxSize >= 2
    /\ Len(last.out) = q.maxSize

\* ------------------------------------------------------------------ C6
\* C6: on a queue of capacity C, after C+K Enqueue calls (K > 0) and no Poll
\* in between, Len() is C, and an unfiltered Poll with limit >= C returns
\* exactly the last C enqueued entries in enqueue order and leaves the store
\* empty: the K oldest entries were evicted, oldest first.
C6_BoundedOverflow ==
    /\ (last.op = "len" /\ polls = 0 /\ Len(enqLog) > q.maxSize)
          => last.n = q.maxSize
    /\ (/\ FirstPollJustReturned /\ last.filter = "" /\ last.limit >= q.maxSize
        /\ Len(enqLog) > q.maxSize)
          => /\ last.out = LastN(enqLog, q.maxSize)
             /\ q.count = 0
             /\ Live(q) = <<>>

\* Capacity 2 overflowed by two entries, then drained.
C6_Witness ==
    /\ FirstPollJustReturned /\ last.filter = "" /\ last.limit >= q.maxSize
    /\ q.maxSize >= 2
    /\ Len(enqLog) >= q.maxSize + 2
    /\ Len(last.out) = q.maxSize

\* Capacity 2 overflowed, then asked for its length.
C6_WitnessLen ==
    last.op = "len" /\ polls = 0 /\ Len(enqLog) > q.maxSize /\ q.maxSize >= 2

\* ------------------------------------------------------------------ C7
\* IDs are handed out in call order: a sequence is in enqueue order when its
\* IDs increase.
InEnqueueOrder(msgs) == \A i, j \in 1..Len(msgs) : i < j => msgs[i].ID < msgs[j].ID

\* The run's first Poll call has just returned and its filter names a channel.
FilteredFirstPoll == FirstPollJustReturned /\ NamesChannel(last.filter)

\* A limit that does not cut a drain of n qualifying entries short.
LimitCovers(l, n) == l <= 0 \/ l >= n

\* C7 as stated, the state after the filtered Poll: it returned only A
\* entries, in enqueue order, and every B entry that was enqueued is in the
\* store, the B entries being all the store holds, in enqueue order.
C7_OrigAfterFilter ==
    FilteredFirstPoll =>
        LET A == FilterChan(last.filter)
        IN  /\ OnlyChan(last.out, A) = last.out
            /\ InEnqueueOrder(last.out)
            /\ Live(q) = OtherChan(enqLog, A)

\* C7 as stated, the call after the filtered Poll: Len() is the number of B
\* entries, and an unfiltered Poll returns exactly the B entries in order.
C7_OrigNextCall ==
    FilteredFirstPoll =>
        LET A == FilterChan(last.filter)
        IN  /\ last'.op = "len" => last'.n = Len(OtherChan(enqLog, A))
            /\ (last'.op = "poll" /\ last'.filter = "")
                  => last'.out = OtherChan(enqLog, A)

\* C7 as stated.
C7_FilterLeavesOthersAnyLimit ==
    []C7_OrigAfterFilter /\ [][C7_OrigNextCall]_vars

\* The filtered Poll took every A entry and nothing had been evicted.
TookAllOf(A) ==
    /\ Len(enqLog) <= q.maxSize
    /\ LimitCovers(last.limit, Len(OnlyChan(enqLog, A)))

C7_AfterFilter ==
    FilteredFirstPoll =>
        LET A == FilterChan(last.filter)
        IN  /\ OnlyChan(last.out, A) = last.out
            /\ InEnqueueOrder(last.out)
            /\ OtherChan(Live(q), A) = OtherChan(Live(pre), A)
            /\ TookAllOf(A) =>
                  /\ last.out = OnlyChan(enqLog, A)
                  /\ Live(q) = OtherChan(enqLog, A)

C7_NextCall ==
    (FilteredFirstPoll /\ TookAllOf(FilterChan(last.filter))) =>
        LET B == OtherChan(enqLog, FilterChan(last.filter))
        IN  /\ last'.op = "len" => last'.n = Len(B)
            /\ (last'.op = "poll" /\ last'.filter = "" /\ LimitCovers(last'.limit, Len(B)))
                  => last'.out = B /\ q'.count = 0

\* C7 (amended): after entries on channels A and B have been enqueued in any
\* order, a Poll with channelFilter = A returns only A entries, in enqueue
\* order, and every B entry the store held stays in it in its original
\* relative order.  When no entry had been evicted and the limit of the
\* filtered Poll covered the A entries, Len() after it equals the number of B
\* entries and a subsequent unfiltered Poll whose limit covers them returns
\* exactly the B entries in enqueue order.
C7_FilterLeavesOthers ==
    []C7_AfterFilter /\ [][C7_NextCall]_vars

\* Entries a1, b1, a2; Poll by the name of channel a took a1 and a2; the
\* unfiltered Poll after it returned b1 alone.
C7_Witness ==
    /\ Len(enqLog) = 3 /\ q.maxSize >= 3
    /\ OnChan(enqLog[1], ChanA) /\ OnChan(enqLog[2], ChanB) /\ OnChan(enqLog[3], ChanA)
    /\ last.op = "poll" /\ polls = 2 /\ last.filter = ""
    /\ last.out = <<enqLog[2]>>
    /\ Live(pre) = <<enqLog[2]>>

\* ------------------------------------------------------------------ C8
\* Message m qualifies for channelFilter f.
Qualifies(m, f) == f = "" \/ m.ChannelID = f \/ m.ChannelName = f

\* The store holds an entry that qualifies for the call of consumer c.
HasQualifying(c) == \E i \in 1..q.count : Qualifies(Live(q)[i], filter[c])

C8_Step ==
    \A c \in Consumers :
        (pc[c] = "P_drain1" /\ HasQualifying(c)) =>
            \/ pc'[c] = "P_drain1"
            \/ /\ pc'[c] = "done"
               /\ ret'[c].kind = "poll" /\ ret'[c].cause = "first"
               /\ ret'[c].out # <<>>

\* C8: when the store holds a qualifying entry as Poll performs its first
\* drain, Poll returns a non-empty result from that drain: its next step is
\* the return, not a wait on the signal, the timer or the cancellation.
C8_NeverBlocksOnData == [][C8_Step]_vars

\* A filtered Poll returned entries from its first drain.
C8_Witness ==
    \E c \in Consumers :
        /\ PollDone(c) /\ ret[c].cause = "first"
        /\ ret[c].filter # "" /\ ret[c].out # <<>>

\* ------------------------------------------------------------------ C9
\* Consumer c is the only caller, blocked in an unfiltered Poll whose timer
\* and cancellation have not fired, and an Enqueue has inserted its entry
\* since the drain that found the store empty.
BlockedAlone(c) ==
    /\ pc[c] = "P_select" /\ filter[c] = ""
    /\ ~timerFired[c] /\ ~ctxDone[c]
    /\ \A d \in Consumers \ {c} : pc[d] = "idle"
    /\ made > enqSeen[c]

\* The timer or the cancellation fires, or another consumer calls.
NoLongerAlone(c) ==
    \/ timerFired[c] \/ ctxDone[c]
    \/ \E d \in Consumers \ {c} : pc[d] # "idle"

\* C9: a single unfiltered Poll blocked on an empty store, whose timeout has
\* not elapsed and whose cancellation has not fired, eventually returns the
\* entry of a concurrent Enqueue, woken by that Enqueue and not by its timer.
C9_WakeOnEnqueue ==
    \A c \in Consumers :
        BlockedAlone(c) ~>
            \/ PollDone(c) /\ ret[c].cause = "wake" /\ ret[c].out # <<>>
            \/ NoLongerAlone(c)

\* A single Poll on a store that started empty returned the entry of a
\* producer after a wake-up.
C9_Witness ==
    \E c \in Consumers :
        /\ PollDone(c) /\ ret[c].cause = "wake" /\ ret[c].filter = ""
        /\ ret[c].out # <<>>
        /\ \A d \in Consumers \ {c} : pc[d] = "idle"

\* ------------------------------------------------------------------ C10
\* Every Enqueue whose critical section has run holds or has closed one
\* signal of its own, and these are all the signals but the installed one.
OneBroadcastEach ==
    /\ \A p, r \in Producers :
          (p # r /\ pc[p] \in {"E_close", "done"} /\ pc[r] \in {"E_close", "done"})
              => oldNotify[p] # oldNotify[r]
    /\ \A p \in Producers : pc[p] = "done" => oldNotify[p] \in closed
    /\ q.notify \notin closed

\* C10: every Enqueue triggers exactly one wake broadcast, and once an Enqueue
\* has delivered its broadcast every consumer that was blocked in Poll at the
\* time of that Enqueue (its last drain came before the Enqueue's critical
\* section) has been woken: its signal is fired.
C10_EveryEnqueueWakesBlocked ==
    /\ OneBroadcastEach
    /\ \A p \in Producers, c \in Consumers :
          (pc[p] = "done" /\ pc[c] = "P_select" /\ oldNotify[p] >= drainGen[c])
              => notifyCh[c] \in closed

\* ------------------------------------------------------------------ C11
\* A call made with a cancelled ctx returns whether or not its timer expires
\* and whether or not an Enqueue occurs.
C11_Returns ==
    \A c \in Consumers : (pc[c] = "P_drain1" /\ ctxAtEntry[c]) ~> pc[c] = "done"

C11_OrigStep ==
    \A c \in Consumers :
        (ctxAtEntry[c] /\ pc[c] # "done" /\ pc'[c] = "done") => ret'[c].out = <<>>

\* C11 as stated: a Poll call given an already-cancelled cancellation signal
\* returns an empty result without waiting for the timeout or for an Enqueue,
\* in every state of the store.
C11_CancelledAtEntryReturnsEmpty == [][C11_OrigStep]_vars /\ C11_Returns

\* Once past the first drain, the call is at a select whose ctx.Done() case
\* is ready.
C11_Ready ==
    \A c \in Consumers :
        (pc[c] \in {"P_select", "P_lock2", "P_drain2"} /\ ctxAtEntry[c]) => ctxDone[c]

C11_Step ==
    \A c \in Consumers :
        /\ (pc[c] = "P_drain1" /\ ctxAtEntry[c]) =>
              \/ pc'[c] = "P_drain1"
              \/ /\ HasQualifying(c)
                 /\ pc'[c] = "done" /\ ret'[c].cause = "first" /\ ret'[c].out # <<>>
              \/ /\ ~HasQualifying(c)
                 /\ pc'[c] = "P_select" /\ ctxDone'[c]
        /\ (pc[c] = "P_select" /\ ctxAtEntry[c]) =>
              \/ pc'[c] = "P_select"
              \/ pc'[c] = "done" /\ ret'[c].out = <<>>
              \/ notifyCh[c] \in closed /\ pc'[c] = "P_lock2"

\* C11 (amended): a Poll call given an already-cancelled cancellation signal
\* never waits for the timeout or for an Enqueue.  Cancellation is not looked
\* at before the first drain: when the store holds a qualifying entry the call
\* returns the entries of that drain.  When the drain yields nothing the call
\* reaches the select with the cancellation case ready and returns an empty
\* result, unless the signal it captured has been fired by a concurrent
\* Enqueue and the select takes that case, after which it drains again.
C11_CancelledAtEntryNoWait ==
    /\ []C11_Ready
    /\ [][C11_Step]_vars
    /\ C11_Returns

\* A call made with a cancelled ctx is at the select over a store that holds
\* only entries its filter rejects; no Enqueue has fired its signal and its
\* timer has not expired.
C11_Witness ==
    \E c \in Consumers :
        /\ pc[c] = "P_select" /\ ctxAtEntry[c] /\ ctxDone[c]
        /\ q.count > 0 /\ filter[c] # ""
        /\ notifyCh[c] \notin closed /\ ~timerFired[c]

\* ------------------------------------------------------------------ C12
\* The cancellation signal of consumer c's call fired while the call was
\* waiting, and the call has not returned yet.
CancelledWaiting(c) ==
    pc[c] \in {"P_select", "P_lock2", "P_drain2"} /\ ctxDone[c] /\ ~ctxAtEntry[c]

\* A call whose cancellation has fired returns whether or not its timer
\* expires and whether or not an Enqueue occurs.
C12_Returns ==
    \A c \in Consumers : CancelledWaiting(c) ~> pc[c] = "done"

C12_OrigStep ==
    \A c \in Consumers :
        CancelledWaiting(c) =>
            /\ pc'[c] \in {pc[c], "done"}
            /\ pc'[c] = "done" => ret'[c].out = <<>>

\* C12 as stated: once the cancellation signal of a waiting Poll has fired,
\* the Poll returns an empty result without further wait; it does not drain
\* and return entries, also when a wake signal is pending at the same time.
C12_CancelledNeverDrains == [][C12_OrigStep]_vars /\ C12_Returns

C12_Step ==
    \A c \in Consumers :
        /\ CancelledWaiting(c) => (pc'[c] = "done" \/ ctxDone'[c])
        /\ (CancelledWaiting(c) /\ pc[c] = "P_select") =>
              \/ pc'[c] = "P_select"
              \/ pc'[c] = "done" /\ ret'[c].out = <<>>
              \/ notifyCh[c] \in closed /\ pc'[c] = "P_lock2"
        /\ (CancelledWaiting(c) /\ pc[c] = "P_drain2") =>
              \/ pc'[c] = "P_drain2"
              \/ /\ HasQualifying(c)
                 /\ pc'[c] = "done" /\ ret'[c].cause = "wake" /\ ret'[c].out # <<>>
              \/ ~HasQualifying(c) /\ pc'[c] = "P_select"

\* C12 (amended): once the cancellation signal of a waiting Poll has fired,
\* the Poll returns without any further wait: the cancellation case of its
\* select stays ready until it returns.  It returns an empty result when no
\* wake signal is pending at the select.  When the signal it waits on has
\* been fired as well, the select takes either case: by the cancellation
\* case the Poll returns empty, by the wake case it drains again and returns
\* the qualifying entries it finds, or goes back to the select when there
\* are none.
C12_CancelledNoWait == [][C12_Step]_vars /\ C12_Returns

\* A waiting Poll whose cancellation and wake signal have both fired.
C12_Witness ==
    \E c \in Consumers :
        /\ pc[c] = "P_select" /\ CancelledWaiting(c)
        /\ notifyCh[c] \in closed
        /\ HasQualifying(c)

\* ------------------------------------------------------------------ C13
\* Consumer c waits, no Enqueue has run since the drain that found nothing
\* for it, and its cancellation has not fired.
WaitingUndisturbed(c) ==
    pc[c] = "P_select" /\ made = enqSeen[c] /\ ~ctxDone[c]

C13_Step ==
    \A c \in Consumers :
        (WaitingUndisturbed(c) /\ pc'[c] # "P_select") =>
            /\ timerFired[c]
            /\ pc'[c] = "done"
            /\ ret'[c].kind = "poll" /\ ret'[c].cause = "timeout" /\ ret'[c].out = <<>>
            /\ q' = q

\* C13: a Poll for which no qualifying entry is available and into whose
\* store no Enqueue occurs after it started waiting leaves its wait only
\* through the timer, returning an empty result, and it does so once the
\* timeout has elapsed: it never blocks forever, unfiltered on an empty store
\* or filtered on a store holding only non-matching entries.
C13_TimeoutReturnsEmpty ==
    /\ [][C13_Step]_vars
    /\ \A c \in Consumers :
          WaitingUndisturbed(c) ~>
              \/ PollDone(c) /\ ret[c].cause = "timeout" /\ ret[c].out = <<>>
              \/ pc[c] = "P_select" /\ (made > enqSeen[c] \/ ctxDone[c])

\* The timeout of a filtered Poll has elapsed over a store that holds only
\* non-matching entries, none of them enqueued since the Poll's first drain.
C13_Witness ==
    \E c \in Consumers :
        /\ WaitingUndisturbed(c) /\ timerFired[c] /\ wakes[c] = 0
        /\ filter[c] # "" /\ q.count > 0

\* ------------------------------------------------------------------ C14
\* The smaller of two numbers.
Min(a, b) == IF a < b THEN a ELSE b

\* Inside Enqueue nothing is waited for: the critical section can run
\* whatever the store holds and whatever the consumers do, and so can the
\* close after it.
C14_NothingAwaited ==
    \A p \in Producers :
        /\ pc[p] = "E_crit" => (mu = p /\ ENABLED EnqueueCrit(p))
        /\ pc[p] = "E_close" => ENABLED EnqueueClose(p)

\* The critical section of Enqueue inserts its entry as the newest; on a full
\* store the count stays at capacity.
C14_Step ==
    \A p \in Producers :
        (pc[p] = "E_crit" /\ pc'[p] = "E_close") =>
            /\ q'.count = Min(q.count + 1, q.maxSize)
            /\ Live(q')[q'.count] = msg[p]

\* C14: every Enqueue call eventually completes under any interleaving with
\* other Enqueue, Poll and Len calls, given a fair mutex; it never waits for
\* free space or for a consumer, and on a full store it evicts instead of
\* blocking.
C14_EnqueueCompletes ==
    /\ []C14_NothingAwaited
    /\ [][C14_Step]_vars
    /\ \A p \in Producers : pc[p] = "idle" ~> pc[p] = "done"
    /\ (mu # NoOne) ~> (mu = NoOne)

\* Both producers have completed Enqueue calls that found the store full,
\* after a Poll had taken an entry.
C14_Witness ==
    /\ \A p \in Producers : pc[p] = "done"
    /\ q.count = q.maxSize
    /\ enqCalls = MaxID
    /\ \E c \in Consumers : PollDone(c) /\ ret[c].out # <<>>

\* ------------------------------------------------------------------ C15
\* No consumer has called Poll: each is idle or in a Len call.
NoPoll ==
    \A c \in Consumers :
        pc[c] \in {"idle", "L_read"} \/ (pc[c] = "done" /\ ret[c].kind = "len")

\* The entries whose Enqueue has run its critical section.
Inserted ==
    {i \in 1..enqCalls : \A p \in Producers : ~(pc[p] = "E_crit" /\ msg[p].ID = i)}

\* With no Poll, the store holds min(n, C) distinct entries after n
\* insertions, all n of them when n <= C.
C15_AllInserted ==
    NoPoll =>
        /\ q.count = Min(Cardinality(Inserted), q.maxSize)
        /\ Distinct(Live(q))
        /\ IDs(Live(q)) \subseteq Inserted
        /\ Cardinality(Inserted) <= q.maxSize => IDs(Live(q)) = Inserted

\* A Len call that reads after the producers have returned reports min(n, C).
C15_LenStep ==
    \A c \in Consumers :
        (/\ NoPoll /\ pc[c] = "L_read" /\ pc'[c] = "done"
         /\ \A p \in Producers : pc[p] = "done")
            => ret'[c].n = Min(enqCalls, q.maxSize)

\* C15: after n Enqueue calls executed concurrently by independent producers
\* on an empty queue of capacity C, with no Poll, Len() equals min(n, C) and
\* the store holds n distinct entries when n <= C: each entry occupies its own
\* slot and none overwrites another.
C15_NoInsertionLost == []C15_AllInserted /\ [][C15_LenStep]_vars

\* Both producers have returned from Enqueue calls on a queue that started
\* empty, and Len has reported two entries.
C15_Witness ==
    /\ NoPoll
    /\ \A p \in Producers : pc[p] = "done"
    /\ enqCalls = Cardinality(Producers)
    /\ \E c \in Consumers : ret[c].kind = "len" /\ ret[c].n = Cardinality(Producers)

\* ------------------------------------------------------------------ C16
\* The entries of a sequence that qualify for channelFilter f, in order.
QualifyingOf(msgs, f) == SelectSeq(msgs, LAMBDA m : Qualifies(m, f))

\* The first n entries of a sequence (all of it when it is shorter).
FirstN(msgs, n) == SubSeq(msgs, 1, Min(n, Len(msgs)))

\* A sequence without the entries of another, in order.
Without(msgs, gone) == SelectSeq(msgs, LAMBDA m : m.ID \notin IDs(gone))

\* C16: a Poll with limit L > 0 returns at most L entries, namely the L
\* oldest qualifying entries when more than L qualify, and leaves the
\* remaining ones in the store; a Poll with limit <= 0 returns all qualifying
\* entries present in the store at the time of the drain.
C16_Limit ==
    last.op = "poll" =>
        LET Q == QualifyingOf(Live(pre), last.filter)
        IN  /\ last.limit > 0 =>
                  /\ Len(last.out) <= last.limit
                  /\ last.out = FirstN(Q, last.limit)
            /\ last.limit <= 0 => last.out = Q
            /\ Live(q) = Without(Live(pre), last.out)

\* Three entries stored, an unfiltered Poll with limit 2 took the two oldest
\* and left the third.
C16_Witness ==
    /\ last.op = "poll" /\ last.filter = "" /\ last.limit = 2
    /\ pre.count = 3
    /\ Len(last.out) = 2 /\ q.count = 1

\* ------------------------------------------------------------------ C17
\* C17: with a non-empty channelFilter, Poll returns an entry only if its
\* ChannelID equals channelFilter or its ChannelName equals channelFilter,
\* and either match suffices (an unlimited Poll returns every stored entry
\* that matches by ID and every one that matches by name); with an empty
\* channelFilter every entry qualifies.  No Poll result ever holds a
\* non-qualifying entry.
C17_FilterRule ==
    last.op = "poll" =>
        /\ \A i \in 1..Len(last.out) :
              \/ last.filter = ""
              \/ last.out[i].ChannelID = last.filter
              \/ last.out[i].ChannelName = last.filter
        /\ last.limit <= 0 =>
              \A i \in 1..pre.count :
                  LET m == Live(pre)[i]
                  IN  /\ m.ChannelID = last.filter => m.ID \in IDs(last.out)
                      /\ m.ChannelName = last.filter => m.ID \in IDs(last.out)
                      /\ last.filter = "" => m.ID \in IDs(last.out)

\* A Poll by the ID of channel b returned entries and left entries of channel
\* a in the store.
C17_Witness ==
    /\ last.op = "poll" /\ last.filter = ChanB.id
    /\ last.out # <<>>
    /\ q.count > 0 /\ \A i \in 1..q.count : OnChan(Live(q)[i], ChanA)

\* ------------------------------------------------------------------ C18
\* The IDs some Poll has returned.
Returned == {i \in DOMAIN delivered : delivered[i] >= 1}

\* The consumers whose Poll returned the entry with ID i.
ReturnedTo(i) == {c \in Consumers : i \in IDs(ret[c].out)}

\* The number of the given conditions that hold.
HowMany(conds) == Cardinality({k \in DOMAIN conds : conds[k]})

\* Every inserted entry is in exactly one place, and nothing else is anywhere.
C18_OnePlace ==
    /\ \A i \in Inserted :
          /\ HowMany(<<i \in IDs(Live(q)), i \in evicted, i \in Returned>>) = 1
          /\ i \in Returned => (delivered[i] = 1 /\ Cardinality(ReturnedTo(i)) = 1)
    /\ IDs(Live(q)) \cup evicted \cup Returned \subseteq Inserted
    /\ Distinct(Live(q))

\* What the store holds and what Poll returned is what was passed to Enqueue.
C18_Unchanged ==
    /\ \A i \in 1..q.count : Live(q)[i] = enqLog[Live(q)[i].ID]
    /\ \A c \in Consumers : \A i \in 1..Len(ret[c].out) :
          /\ ret[c].out[i].ID \in 1..Len(enqLog)
          /\ ret[c].out[i] = enqLog[ret[c].out[i].ID]

\* An entry leaves the store through an eviction or a Poll's result.
C18_Step ==
    \A i \in IDs(Live(q)) \ IDs(Live(q')) :
        \/ i \in evicted' \ evicted
        \/ delivered'[i] = delivered[i] + 1

\* C18: in every reachable state each entry passed to Enqueue (and inserted
\* by it) is in exactly one of three places: live in the store, evicted by
\* overflow, or returned by exactly one Poll call.  An entry leaves the store
\* only by eviction or by being returned, and nothing is in the store or in a
\* Poll result that was not enqueued, unchanged in content.
C18_Conservation ==
    /\ []C18_OnePlace
    /\ []C18_Unchanged
    /\ [][C18_Step]_vars

\* Entries in all three places: one evicted, one returned by a filtered Poll,
\* one live, after every producer has returned.
C18_Witness ==
    /\ \A p \in Producers : pc[p] = "done"
    /\ evicted # {} /\ q.count > 0
    /\ \E c \in Consumers : PollDone(c) /\ ret[c].filter # "" /\ ret[c].out # <<>>

\* ------------------------------------------------------------------ C19
\* msgs is a subsequence of the enqueue order: its entries are entries of
\* enqLog, unchanged, at increasing positions (the entry with ID k is the
\* k-th of enqLog).
SubseqOfEnqLog(msgs) ==
    /\ \A i \in 1..Len(msgs) :
          msgs[i].ID \in 1..Len(enqLog) /\ msgs[i] = enqLog[msgs[i].ID]
    /\ InEnqueueOrder(msgs)

\* C19: when one producer calls Enqueue sequentially, entries become visible
\* to drains in call order: every Poll result is ordered oldest first, and the
\* concatenation of the results of successive Poll calls of one consumer with
\* a fixed filter is a subsequence of the producer's enqueue order (entries
\* may be missing through eviction or other consumers, never reordered).
C19_SingleProducerOrder ==
    /\ \A k \in 1..Len(enqLog) : enqLog[k].ID = k
    /\ \A f \in SeqFilters : SubseqOfEnqLog(got[f])
    /\ SubseqOfEnqLog(Live(q))

\* The consumer polling by the name of channel a got two entries in two
\* calls, with an entry of channel b enqueued between them that another
\* consumer took, and one entry was evicted.
C19_Witness ==
    /\ Len(got["a"]) = 2 /\ got["a"][2].ID >= got["a"][1].ID + 2
    /\ got[""] # <<>>
    /\ evicted # {}

\* ------------------------------------------------------------------ C20
\* The positions of the options that name a size above zero.
Positive(os) == {i \in 1..Len(os) : os[i] > 0}

\* The last size above zero among the options.
LastPositive(os) == os[CHOOSE i \in Positive(os) : \A j \in Positive(os) : j <= i]

\* C20: New with no capacity option, or with WithMaxSize(n) for n <= 0,
\* yields a queue of capacity 1000; WithMaxSize(n) for n > 0 yields capacity
\* n (of several options the last with n > 0 counts); a new queue has
\* Len() = 0, and Len() grows with the Enqueue calls up to the capacity.
C20_Construction ==
    q # NilQueue =>
        /\ Positive(opts) = {} => q.maxSize = 1000
        /\ Positive(opts) # {} => q.maxSize = LastPositive(opts)
        /\ DOMAIN q.buf = 0..(q.maxSize - 1)
        /\ q.count = Min(enqCalls, q.maxSize)
        /\ last.op = "new" => (q.count = 0 /\ \A j \in DOMAIN q.buf : q.buf[j] = ZeroMsg)
        /\ last.op = "len" => last.n = Min(enqCalls, q.maxSize)

\* New(WithMaxSize(0)) returned a queue of capacity 1000 and Len() said 0.
C20_Witness ==
    /\ opts = <<0>> /\ q # NilQueue
    /\ q.maxSize = 1000
    /\ enqCalls = 0 /\ last.op = "len" /\ last.n = 0

\* ------------------------------------------------------------------ C21
\* The event is one the handler is to enqueue.
Wanted(e) ==
    /\ e.author = "user"
    /\ e.guild = sess.guildID
    /\ \/ sess.filter = NilFilter
       \/ IsAllowed(sess.filter, ChannelName(sess.byID, e.channel))

C21_Step ==
    (last'.op = "event" /\ last' # last) =>
        IF Wanted(last')
        THEN /\ enqCalls' = enqCalls + 1
             /\ Len(enqLog') = Len(enqLog) + 1
             /\ enqLog'[Len(enqLog')].ID = last'.id
             /\ enqLog'[Len(enqLog')].ChannelID = last'.channel
             /\ q'.count = Min(q.count + 1, q.maxSize)
             /\ Live(q')[q'.count] = enqLog'[Len(enqLog')]
        ELSE UNCHANGED <<q, enqCalls, enqLog, evicted, made, closed>>

\* C21: the message-create handler calls Enqueue exactly once for an inbound
\* event whose author is present and not a bot, whose guild ID equals the
\* configured guild, and whose channel name is allowed by the ingestion
\* filter (or the filter is nil); for every other event (nil author, bot
\* author, other guild, no guild when one is configured, denied channel) it
\* leaves the queue unchanged.
C21_IngestionBoundary == [][C21_Step]_vars

\* An event of a user on an allowed channel was enqueued, first into an empty
\* queue, by a Session whose filter has a deny list.
C21_Witness ==
    /\ last.op = "event" /\ last.author = "user" /\ last.id = enqCalls
    /\ sess.filter # NilFilter /\ sess.filter.deny # {}
    /\ pre.count = 0 /\ q.count = 1

\* ------------------------------------------------------------------ C22
\* The number the request gives for an argument is n.
Gives(arg, n) == arg.present /\ arg.v = n

\* The request gives no number above zero for the argument.
GivesNone(arg) == ~arg.present \/ arg.v <= 0

\* C22: the discord_poll_messages handler always calls Queue.Poll with a
\* timeout between 1 and 300 seconds and a limit >= 1: timeout_seconds <= 0
\* or absent becomes 30, timeout_seconds > 300 becomes 300, limit <= 0 or
\* absent becomes 50; so the tool never asks for an unbounded drain, and what
\* it returns is no longer than the limit.
C22_PollToolClamping ==
    (last.op = "tool" /\ last.polled) =>
        /\ last.timeout \in 1..300
        /\ last.limit >= 1
        /\ GivesNone(last.req.timeout_seconds) => last.timeout = 30
        /\ (~GivesNone(last.req.timeout_seconds) /\ last.req.timeout_seconds.v > 300)
               => last.timeout = 300
        /\ (~GivesNone(last.req.timeout_seconds) /\ last.req.timeout_seconds.v <= 300)
               => Gives(last.req.timeout_seconds, last.timeout)
        /\ GivesNone(last.req.limit) => last.limit = 50
        /\ ~GivesNone(last.req.limit) => Gives(last.req.limit, last.limit)
        /\ Len(last.out) <= last.limit

\* The tool polled with a timeout above the cap and no limit, on a channel
\* given by name, and returned the one message of that channel out of two.
C22_Witness ==
    /\ last.op = "tool" /\ last.polled
    /\ Gives(last.req.timeout_seconds, 301) /\ last.timeout = 300
    /\ last.req.limit = Absent /\ last.limit = 50
    /\ last.req.channel = <<"#", "a">> /\ last.filter = "1"
    /\ Len(last.out) = 1 /\ q.count = 1

\* ------------------------------------------------------------------ C23
\* The IDs of the messages the consumers got.
GotIDs == UNION {IDs(got[f]) : f \in SeqFilters}

\* The messages enqueued so far that were neither evicted nor returned, in
\* enqueue order.
StillLive == SelectSeq(enqLog, LAMBDA m : m.ID \notin evicted /\ m.ID \notin GotIDs)

\* C23: in every reachable state the live entries occupy the slots head,
\* head+1, ..., head+count-1 (mod capacity) of the backing array, in
\* increasing enqueue order starting with the oldest at head, after any
\* sequence of Enqueue calls (with and without eviction), unfiltered drains
\* and filtered drains.
C23_RingLayout ==
    /\ q.head \in 0..(q.maxSize - 1)
    /\ q.count \in 0..q.maxSize
    /\ q.count = Len(StillLive)
    /\ \A i \in 0..(q.count - 1) : q.buf[(q.head + i) % q.maxSize] = StillLive[i + 1]

\* After a filtered and an unfiltered drain the live entries wrap around the
\* end of the array.
C23_Witness ==
    /\ got["a"] # <<>> /\ got[""] # <<>>
    /\ q.maxSize = 2 /\ q.head = 1 /\ q.count = 2

\* ------------------------------------------------------------------ C24
\* The producer p runs the critical section of its Enqueue in this step.
InsertsNow(p) == pc[p] = "E_crit" /\ pc'[p] = "E_close"

\* The oldest message of a non-empty sequence of messages: the one first
\* enqueued.
Oldest(msgs) == CHOOSE m \in {msgs[i] : i \in 1..Len(msgs)} :
                    \A i \in 1..Len(msgs) : m.ID <= msgs[i].ID

C24_Step ==
    /\ \A p \in Producers :
          InsertsNow(p) =>
              IF q.count = q.maxSize
              THEN /\ evicted' = evicted \cup {q.buf[q.head].ID}
                   /\ q.buf[q.head].ID \notin evicted
                   /\ q.buf[q.head] = Oldest(Live(q))
                   /\ Live(q') = Append(Tail(Live(q)), msg[p])
                   /\ q'.count = q.count
              ELSE /\ evicted' = evicted
                   /\ Live(q') = Append(Live(q), msg[p])
                   /\ q'.count = q.count + 1
    /\ (\A p \in Producers : ~InsertsNow(p)) => evicted' = evicted

\* C24: an Enqueue evicts an entry only when count equals capacity at the
\* start of its critical section; it then evicts exactly one entry, the
\* oldest one (at head), whatever its content, before the new entry is
\* appended as the newest.  When count < capacity nothing is evicted and
\* count grows by exactly 1.
C24_EvictionDiscipline == [][C24_Step]_vars

\* A producer's Enqueue found the store full and evicted the second message,
\* the first having been evicted before.
C24_Witness ==
    \E p \in Producers :
        /\ pc[p] = "E_close"
        /\ msg[p].ID = Cap + 2
        /\ evicted = {1, 2}
        /\ Live(q)[q.count] = msg[p]

\* ------------------------------------------------------------------ C25
\* The process is between the Lock and the Unlock of an operation.
InCritical(x) == pc[x] \in {"E_crit", "P_drain1", "P_drain2", "L_read"}

\* The Poll of consumer c is suspended in its select.
Suspended(c) == pc[c] = "P_select"

C25_Exclusion ==
    /\ \A c \in Consumers : Suspended(c) => mu # c
    /\ Cardinality({x \in Procs : InCritical(x)}) <= 1
    /\ \A x \in Procs : InCritical(x) <=> mu = x

\* head, count or the array change, or a call takes its result from them,
\* only in a step of the process that holds the mutex.
C25_Step ==
    /\ <<q'.head, q'.count, q'.buf>> # <<q.head, q.count, q.buf>> =>
          mu # NoOne /\ InCritical(mu) /\ pc'[mu] # pc[mu]
    /\ \A c \in Consumers :
          (ret'[c] # ret[c] /\ (ret'[c].kind = "len" \/ ret'[c].out # <<>>)) =>
              mu = c /\ mu' = NoOne

\* C25: no operation holds the lock across a blocking wait: whenever a Poll
\* is suspended waiting for the wake signal, the timer or cancellation, it
\* does not hold the queue's mutex; at most one operation is inside a
\* critical section at any time, and all accesses to head, count and the
\* backing array happen inside one.
C25_NoLockAcrossWait == []C25_Exclusion /\ [][C25_Step]_vars

\* While one Poll is suspended a producer is inside its critical section and
\* the other Poll, woken, waits for the mutex.
C25_Witness ==
    \E c, d \in Consumers, p \in Producers :
        /\ Suspended(c)
        /\ pc[d] = "P_lock2"
        /\ pc[p] = "E_crit" /\ mu = p

\* ------------------------------------------------------------------ C26
\* The entry with this ID went into the store: it is live, evicted or returned.
WentIn(i) == i \in IDs(Live(q)) \cup evicted \cup Returned

\* Every fired signal was fired by an Enqueue whose entry went in, and the
\* installed signal is one nobody fired; a woken Poll holds a fired signal.
C26_Fired ==
    /\ q.notify \notin closed
    /\ \A ch \in closed : ch \in Inserted /\ WentIn(ch)
    /\ \A c \in Consumers : pc[c] = "P_lock2" => notifyCh[c] \in closed

\* The critical section inserts and replaces the signal in one step, holding
\* the mutex, and fires nothing; a signal is fired only by a producer past
\* its critical section, not holding the mutex, whose entry went in, and the
\* signal it fires is the one its critical section replaced.
C26_Step ==
    /\ \A p \in Producers :
          InsertsNow(p) =>
              /\ mu = p /\ mu' = NoOne
              /\ q'.notify # q.notify /\ q'.notify \notin closed
              /\ oldNotify'[p] = q.notify
              /\ Live(q')[q'.count] = msg[p]
              /\ closed' = closed
    /\ closed' # closed =>
          \E p \in Producers :
              /\ pc[p] = "E_close" /\ pc'[p] = "done"
              /\ mu # p
              /\ closed' = closed \cup {oldNotify[p]}
              /\ WentIn(msg[p].ID)
              /\ q.notify # oldNotify[p]
              /\ q' = q

\* C26: the eviction check, the insertion and the replacement of the
\* generation signal happen inside one critical section of Enqueue, and the
\* old signal is fired only after the lock has been released; so whenever a
\* waiter observes a fired signal, the entry of the Enqueue that fired it has
\* already been inserted and the installed signal is already the replacement.
C26_BroadcastOrdering == []C26_Fired /\ [][C26_Step]_vars

\* A Poll woken by the signal a producer fired finds the producer's entry in
\* the store, while another producer holds the mutex.
C26_Witness ==
    \E c \in Consumers, p, r \in Producers :
        /\ pc[c] = "P_lock2"
        /\ pc[p] = "done" /\ oldNotify[p] = notifyCh[c]
        /\ oldNotify[p] \in IDs(Live(q))
        /\ pc[r] = "E_crit"

\* ------------------------------------------------------------------ C27
\* A critical section of Enqueue has run since the last drain of consumer c.
EnqueuedSince(c) == made > enqSeen[c]

\* A Poll that waits with no Enqueue since its drain holds an unfired signal,
\* whatever was fired before or is fired now by earlier Enqueue calls.
C27_Unaffected ==
    \A c \in Consumers :
        (Suspended(c) /\ ~EnqueuedSince(c)) =>
            /\ notifyCh[c] = q.notify
            /\ notifyCh[c] \notin closed
            /\ \A p \in Producers :
                  pc[p] \in {"E_close", "done"} => oldNotify[p] # notifyCh[c]

\* A suspended Poll leaves its select through a signal fired by an Enqueue
\* later than its drain, or through its timer or its cancellation.
C27_Step ==
    \A c \in Consumers :
        Suspended(c) =>
            /\ pc'[c] \in {"P_select", "P_lock2", "done"}
            /\ pc'[c] = "P_lock2" =>
                  /\ EnqueuedSince(c)
                  /\ \E p \in Producers :
                        pc[p] = "done" /\ oldNotify[p] = notifyCh[c]
                        /\ oldNotify[p] >= enqSeen[c]
            /\ pc'[c] = "done" =>
                  /\ ret'[c].out = <<>>
                  /\ \/ ret'[c].cause = "timeout" /\ timerFired[c]
                     \/ ret'[c].cause = "cancel" /\ ctxDone[c]

\* C27: no signal is queued: a Poll that begins waiting after an Enqueue's
\* critical section has run is unaffected by that Enqueue's broadcast; it
\* captures the replacement signal and is woken only by a later Enqueue, by
\* its timeout or by cancellation.
C27_NoSignalQueuing == []C27_Unaffected /\ [][C27_Step]_vars

\* A filtered Poll waits on an unfired signal although the Enqueue whose
\* entry it left in the store has fired its broadcast.
C27_Witness ==
    \E c \in Consumers, p \in Producers :
        /\ Suspended(c) /\ filter[c] # "" /\ notifyCh[c] \notin closed
        /\ pc[p] = "done" /\ oldNotify[p] \in IDs(Live(q))
        /\ oldNotify[p] + 1 = notifyCh[c]

\* ------------------------------------------------------------------ C28
\* The Poll of consumer c is blocked in its select, or unblocked and not
\* running yet.
Blocked(c) == pc[c] = "P_select" /\ chosen[c] # "none"

\* What unblocked a select has happened, and a select still blocked has
\* nothing to proceed with.
C28_FirstEvent ==
    \A c \in Consumers :
        /\ chosen[c] # "none" => pc[c] = "P_select"
        /\ chosen[c] = "parked" => ~Ready(c)
        /\ chosen[c] = "timer" => timerFired[c]
        /\ chosen[c] = "done" => ctxDone[c]
        /\ chosen[c] = "notify" => notifyCh[c] \in closed

\* The first of the three events to reach a blocked Poll unblocks it, later
\* ones change nothing, and the Poll resumes with the outcome of the first.
C28_Step ==
    \A c \in Consumers :
        /\ (chosen[c] = "parked" /\ chosen'[c] # "parked") =>
              /\ pc'[c] = "P_select"
              /\ \/ chosen'[c] = "timer" /\ ~timerFired[c] /\ timerFired'[c]
                 \/ chosen'[c] = "done" /\ ~ctxDone[c] /\ ctxDone'[c]
                 \/ chosen'[c] = "notify" /\ notifyCh[c] \in closed' \ closed
        /\ chosen[c] \in {"timer", "done", "notify"} =>
              \/ chosen'[c] = chosen[c] /\ pc'[c] = pc[c]
              \/ /\ chosen[c] = "timer"
                 /\ pc'[c] = "done" /\ ret'[c].cause = "timeout" /\ ret'[c].out = <<>>
                 /\ q' = q
              \/ /\ chosen[c] = "done"
                 /\ pc'[c] = "done" /\ ret'[c].cause = "cancel" /\ ret'[c].out = <<>>
                 /\ q' = q
              \/ chosen[c] = "notify" /\ pc'[c] = "P_lock2"

\* C28: a suspended Poll resumes on whichever of new-data signal, timeout
\* expiry or cancellation occurs first, and its outcome is that of the first
\* event: when its timeout elapsed (or its cancellation fired) before any
\* Enqueue fired its signal, the Poll returns empty and removes nothing, even
\* if an Enqueue fires the signal before the Poll has resumed.
C28_SelectOutcome == []C28_FirstEvent /\ [][C28_Step]_vars

\* The timer unblocked a Poll, and before the Poll has resumed an Enqueue
\* whose entry qualifies has fired the signal the Poll waited on.
C28_Witness ==
    \E c \in Consumers :
        /\ Blocked(c) /\ chosen[c] = "timer"
        /\ notifyCh[c] \in closed
        /\ ~ctxDone[c]
        /\ HasQualifying(c)

\* ------------------------------------------------------------------ C29
\* The positions of a sequence of messages whose message is on the channel
\* the filter names, by ID or by name.
MatchingAt(msgs, f) ==
    {i \in 1..Len(msgs) : msgs[i].ChannelID = f \/ msgs[i].ChannelName = f}

\* The k-th smallest of a set of positions.
Kth(S, k) == CHOOSE i \in S : Cardinality({j \in S : j <= i}) = k

\* The messages at the given positions, in the order of the sequence.
At(msgs, S) == [k \in 1..Cardinality(S) |-> msgs[Kth(S, k)]]

\* The first l of a set of positions, all of them when l <= 0.
OldestOf(S, l) == {i \in S : l <= 0 \/ Cardinality({j \in S : j <= i}) <= l}

\* C29: with a non-empty channelFilter and limit L > 0 the collected entries
\* are exactly the L oldest qualifying entries (all of them when fewer than L
\* qualify); every further qualifying entry is kept in the store, and the
\* kept entries, non-qualifying ones and surplus qualifying ones, keep their
\* relative order.  With limit <= 0 every qualifying entry is collected.
C29_FilteredLimit ==
    (last.op = "poll" /\ last.filter # "") =>
        LET P == Live(pre)
            M == MatchingAt(P, last.filter)
            T == OldestOf(M, last.limit)
        IN  /\ last.out = At(P, T)
            /\ Live(q) = At(P, (1..Len(P)) \ T)
            /\ last.limit > 0 => Len(last.out) = Min(last.limit, Cardinality(M))
            /\ last.limit <= 0 => MatchingAt(Live(q), last.filter) = {}
            /\ Cardinality(MatchingAt(Live(q), last.filter)) = Cardinality(M) - Len(last.out)

\* Of two entries of channel a with one of channel b between them, a Poll by
\* name with limit 1 took the older and kept the other behind the entry of b.
C29_Witness ==
    /\ last.op = "poll" /\ last.filter = "a" /\ last.limit = 1
    /\ pre.count = 3 /\ Len(last.out) = 1
    /\ q.count = 2 /\ OnChan(Live(q)[1], ChanB) /\ OnChan(Live(q)[2], ChanA)

\* ------------------------------------------------------------------ C30
\* The live window of the queue s runs over the end of the array.
Wrapped(s) == s.head + s.count > s.maxSize

\* C30: after a drain with a non-empty channelFilter on a non-empty store,
\* head is 0, count is the previous count minus the number of collected
\* entries, and the kept entries occupy slots 0..count-1 in their original
\* relative order, whatever head was before and whether or not the live
\* window wrapped around the end of the array.
C30_Compaction ==
    (last.op = "poll" /\ last.filter # "" /\ pre.count > 0) =>
        LET kept == Without(Live(pre), last.out)
        IN  /\ q.head = 0
            /\ q.count = pre.count - Len(last.out)
            /\ q.count = Len(kept)
            /\ \A j \in 0..(q.count - 1) : q.buf[j] = kept[j + 1]

\* A filtered drain of a window that began at slot 1 and wrapped took one
\* entry and left the other in slot 0.
C30_Witness ==
    /\ last.op = "poll" /\ last.filter = "a"
    /\ pre.head = 1 /\ Wrapped(pre)
    /\ Len(last.out) = 1
    /\ q.head = 0 /\ q.count = 1 /\ OnChan(q.buf[0], ChanB)

\* ------------------------------------------------------------------ C31
\* The number of entries an unfiltered drain with limit l takes from a store
\* of c entries.
TakenOf(c, l) == IF l <= 0 THEN c ELSE Min(c, l)

\* C31: a drain with empty channelFilter on a store of count c removes
\* exactly n = c (limit <= 0) or n = min(c, limit) entries from the head,
\* returns them in order, advances head by n modulo capacity, decreases count
\* by n, and leaves the remaining c-n live entries in their slots and order.
C31_UnfilteredFrame ==
    (last.op = "poll" /\ last.filter = "") =>
        LET n == TakenOf(pre.count, last.limit)
            slot(i) == (pre.head + i) % pre.maxSize
        IN  /\ Len(last.out) = n
            /\ \A i \in 0..(n - 1) : last.out[i + 1] = pre.buf[slot(i)]
            /\ q.head = slot(n)
            /\ q.count = pre.count - n
            /\ \A i \in n..(pre.count - 1) : q.buf[slot(i)] = pre.buf[slot(i)]
            /\ q.maxSize = pre.maxSize

\* An unfiltered drain with limit 1 of a window of two entries that wrapped:
\* head went from the last slot round to slot 0, where the other entry stays.
C31_Witness ==
    /\ last.op = "poll" /\ last.filter = "" /\ last.limit = 1
    /\ pre.head = 1 /\ pre.count = 2 /\ Wrapped(pre)
    /\ Len(last.out) = 1
    /\ q.head = 0 /\ q.count = 1 /\ q.buf[0] = pre.buf[0]

\* ------------------------------------------------------------------ C32
\* Consumer c takes a step in which no Poll of its returns entries.
YieldsNothing(c) ==
    /\ pc'[c] # pc[c]
    /\ ~(pc'[c] = "done" /\ ret'[c].kind = "poll" /\ ret'[c].out # <<>>)

\* A step of a Poll that yields nothing, a drain that found nothing or the
\* return on timeout or cancellation, leaves the live entries as they were,
\* and so Len() and what an unfiltered Poll would return; a drain of an
\* empty store leaves head, count and the array as they were.
C32_Step ==
    \A c \in Consumers :
        YieldsNothing(c) =>
            /\ Live(q') = Live(q)
            /\ q'.count = q.count
            /\ poll(q', "", 0).out = poll(q, "", 0).out
            /\ q.count = 0 => q' = q
            /\ (pc'[c] = "done" /\ ret'[c].kind = "poll") =>
                  ret'[c].cause \in {"timeout", "cancel"} /\ q' = q

\* C32: a drain that yields nothing does not change what the store holds: on
\* an empty store it mutates nothing, and a Poll call that returns empty
\* (timeout, cancellation, or a filter that matches nothing) leaves the
\* sequence of live entries, their contents and their order unchanged, so
\* that Len() and the result of a following unfiltered Poll are unaffected.
C32_EmptyDrainFrame == [][C32_Step]_vars

\* A Poll by channel a returned empty on timeout from a store that holds
\* entries of channel b only.
C32_Witness ==
    \E c \in Consumers :
        /\ pc[c] = "done" /\ ret[c].kind = "poll" /\ ret[c].out = <<>>
        /\ ret[c].cause = "timeout" /\ ret[c].filter = "a"
        /\ q.count > 0 /\ \A i \in 1..q.count : OnChan(Live(q)[i], ChanB)

\* ------------------------------------------------------------------ C33
\* The Poll of consumer c returns an empty result in this step.
ReturnsEmpty(c) ==
    pc[c] # "done" /\ pc'[c] = "done" /\ ret'[c].kind = "poll" /\ ret'[c].out = <<>>

C33_Step ==
    \A c \in Consumers :
        /\ ReturnsEmpty(c) =>
              /\ pc[c] = "P_select"
              /\ \/ timerFired[c] /\ ret'[c].cause = "timeout"
                 \/ ctxDone[c] /\ ret'[c].cause = "cancel"
        /\ (pc[c] = "P_drain2" /\ ~HasQualifying(c) /\ pc'[c] # pc[c]) =>
              /\ pc'[c] = "P_select"
              /\ notifyCh[c] \in closed
              /\ notifyCh'[c] = q.notify /\ notifyCh'[c] # notifyCh[c]
              /\ notifyCh'[c] \notin closed'
              /\ timerFired'[c] = timerFired[c] /\ ctxDone'[c] = ctxDone[c]

\* C33: Poll returns an empty result only when its timeout has elapsed or its
\* cancellation signal has fired: a Poll that is woken by an Enqueue and
\* whose re-drain yields nothing (the new entry does not match its filter,
\* another consumer took it, or it was evicted) does not return but goes on
\* waiting on a freshly captured signal.
C33_EmptyOnlyOnTimeoutOrCancel == [][C33_Step]_vars

\* A Poll by channel a was woken, found only entries of channel b, and waits
\* again on an unfired signal, its timer and its cancellation not fired.
C33_Witness ==
    \E c \in Consumers :
        /\ pc[c] = "P_select" /\ wakes[c] >= 1 /\ filter[c] = "a"
        /\ notifyCh[c] \notin closed
        /\ ~timerFired[c] /\ ~ctxDone[c]
        /\ q.count > 0 /\ ~HasQualifying(c)

\* ------------------------------------------------------------------ C34
\* The timer of a Poll is armed once: expired, it stays expired until the
\* Poll returns, whatever wakes the Poll in between.
C34_Step ==
    \A c \in Consumers : timerFired[c] => (timerFired'[c] \/ pc'[c] = "done")

\* C34: a Poll whose timeout has elapsed eventually returns even when entries
\* that do not match its filter keep being enqueued without end: repeated
\* wake-ups by non-matching Enqueue calls do not re-arm the timer, which is
\* armed once per Poll call, and cannot postpone the return for ever.
C34_TimeoutNotPostponed ==
    /\ [][C34_Step]_vars
    /\ \A c \in Solo : timerFired[c] ~> pc[c] = "done"

\* A Poll by channel a whose timer has expired has been woken and is woken
\* again by an Enqueue of channel b.
C34_Witness ==
    \E c \in Solo :
        /\ pc[c] = "P_select" /\ timerFired[c] /\ filter[c] = "a"
        /\ wakes[c] = MaxWakes
        /\ notifyCh[c] \in closed
        /\ q.count > 0 /\ \A i \in 1..q.count : OnChan(Live(q)[i], ChanB)

\* ------------------------------------------------------------------ C35
\* C35: with the wiring of main (the Session's own filter nil, so every
\* message of the guild is enqueued), no entry the discord_poll_messages
\* handler returns is on a channel that the configured safety filter denies.
C35_HandlerEnforcesFilter ==
    last.op = "tool" =>
        \A i \in 1..Len(last.out) : IsAllowed(safetyFilter, last.out[i].ChannelName)

\* What the handler does instead: it returns what Poll gives, whatever the
\* configured filter says.
C35_HandlerReturnsPollResult ==
    (last.op = "tool" /\ last.polled) =>
        \A i \in 1..Len(last.out) :
            \E j \in 1..Len(enqLog) : enqLog[j] = last.out[i]

\* A poll without channel argument has returned an entry of channel b, which
\* the configured denylist names.
C35_Witness ==
    /\ last.op = "tool"
    /\ last.req.channel = <<>>
    /\ safetyFilter = NewFilter({}, {"b"})
    /\ \E i \in 1..Len(last.out) : last.out[i].ChannelName = "b"
\* ------------------------------------------------------------------ C36
\* The signals some part of the program holds: the installed one, those the
\* producers took out and those the consumers captured.
Held ==
    {q.notify}
    \cup {oldNotify[p] : p \in {r \in Producers : pc[r] = "E_close"}}
    \cup {notifyCh[c] : c \in {d \in Consumers : pc[d] \in {"P_select", "P_lock2"}}}

\* The installed signal is not fired, and the signals the producers are about
\* to fire are unfired, distinct, and none of them is the installed one.
C36_State ==
    /\ q.notify \notin closed
    /\ \A p \in Producers :
          pc[p] = "E_close" => oldNotify[p] \notin closed /\ oldNotify[p] # q.notify
    /\ \A p, r \in Producers :
          (p # r /\ pc[p] = "E_close" /\ pc[r] = "E_close") => oldNotify[p] # oldNotify[r]

\* The installed signal changes in the critical section of an Enqueue and in
\* no other step, there to an object nobody holds or has fired; a call past
\* its critical section leaves it alone.  A step that fires, fires one
\* signal, one that was not fired before.
C36_Step ==
    /\ \A p \in Producers :
          (pc[p] = "E_crit" /\ pc'[p] = "E_close") =>
              /\ q'.notify \notin Held \cup closed
              /\ oldNotify'[p] = q.notify
    /\ q'.notify # q.notify =>
          \E p \in Producers : pc[p] = "E_crit" /\ pc'[p] = "E_close"
    /\ closed' # closed =>
          \E p \in Producers :
              /\ pc[p] = "E_close" /\ pc'[p] = "done"
              /\ oldNotify[p] \notin closed
              /\ closed' = closed \cup {oldNotify[p]}
    /\ \A p \in Producers :
          (pc[p] = "E_close" /\ pc'[p] = "done") => oldNotify[p] \in closed' \ closed

\* C36: the signal is replaced exactly once per Enqueue, every signal object
\* is fired at most once, and the installed signal is never in the fired
\* state, under any interleaving of concurrent Enqueue calls.
C36_SignalDiscipline == []C36_State /\ [][C36_Step]_vars

\* Two concurrent Enqueue calls are both past their critical sections with
\* their signals still to fire, a third signal installed.
C36_Witness ==
    /\ \A p \in Producers : pc[p] = "E_close"
    /\ Cardinality({oldNotify[p] : p \in Producers} \cup {q.notify}) = Cardinality(Producers) + 1
\* ------------------------------------------------------------------ C37
\* The slots of the live window of the queue s.
LiveSlots(s) == {(s.head + i) % s.maxSize : i \in 0..(s.count - 1)}

\* The slots outside of it.
DeadSlots(s) == (0..(s.maxSize - 1)) \ LiveSlots(s)

\* The last call was an Enqueue that found the queue full.
EvictedNow == last.op = "enqueue" /\ pre.count = pre.maxSize

\* C37: in every reachable state 0 <= head < capacity and every slot outside
\* the live window head..head+count-1 (mod capacity) holds the zero-valued
\* entry: the slots a drain vacated are cleared, and the slot an eviction
\* vacated is the one the new entry is written to.
C37_DeadSlots ==
    /\ q.head \in 0..(q.maxSize - 1)
    /\ DOMAIN q.buf = 0..(q.maxSize - 1)
    /\ \A j \in DeadSlots(q) : q.buf[j] = ZeroMsg
    /\ last.op = "poll" =>
          \A j \in LiveSlots(pre) \ LiveSlots(q) : q.buf[j] = ZeroMsg
    /\ EvictedNow =>
          /\ q.buf[pre.head] = enqLog[Len(enqLog)]
          /\ q.head = (pre.head + 1) % q.maxSize
          /\ \A j \in (0..(q.maxSize - 1)) \ {pre.head} : q.buf[j] = pre.buf[j]

\* On a store of three slots that has evicted, a drain of one entry left the
\* window on slots 2 and 0 and slot 1 cleared.
C37_Witness ==
    /\ last.op = "poll" /\ Len(last.out) = 1
    /\ evicted # {}
    /\ q.maxSize = 3 /\ q.head = 2 /\ q.count = 2
    /\ pre.buf[1] # ZeroMsg /\ q.buf[1] = ZeroMsg
====
